---- MODULE Spec2Model ----
(***************************************************************************)
(* Model of the monad-plays-pokemon indexer and contracts.                 *)
(*                                                                         *)
(*   indexer/src/voteAggregator.ts  VoteAggregator: per-window vote lists, *)
(*                                  window clock, election                 *)
(*   indexer/src/index.ts           ingestion: subscription handler,       *)
(*                                  polling, dedup set and its cleanup,    *)
(*                                  circular buffers; game-state sampler;  *)
(*                                  frame spectators                       *)
(*   indexer/src/emulator.ts        frame pipeline: compression slots and  *)
(*                                  the queued frame                       *)
(*   contracts/src/*.sol            SimpleDelegation.execute,              *)
(*                                  MonadPlaysPokemon.vote                 *)
(*                                                                         *)
(* Specifications                                                          *)
(*   SpecAgg  one VoteAggregator driven by arbitrary addVote / onBlock /   *)
(*            forceFinalize calls                                          *)
(*   SpecDet  two VoteAggregator runs fed the same votes in two arrival    *)
(*            orders and the same finalizing tick                          *)
(*   SpecIdx  the indexer: chain, subscription path and polling path       *)
(*            driving one VoteAggregator                                   *)
(*   SpecPoll the polling path on a chain whose head moves by hundreds of  *)
(*            blocks between polls                                         *)
(*   SpecPollFair the polling path alone on a chain with VoteCast logs;    *)
(*            every poll succeeds and is told the chain's head             *)
(*   SpecFrame the frame timer and the settling compressions               *)
(*   SpecFrameFair SpecFrame in which every started compression settles    *)
(*   SpecButton pressButton calls and the frame timer                      *)
(*   SpecGame  the game-state sampler                                      *)
(*   SpecDeleg execute transactions on delegated accounts                  *)
(*   SpecVote  vote transactions                                           *)
(*   SpecView  connection, close and error events of frame spectators      *)
(*   SpecIo    connections on the event channel, with the subscription     *)
(*            path and the game-state sampler broadcasting                 *)
(*   SpecWs    the subscription socket: open, confirmations,               *)
(*            notifications, error, close and the reconnect timer          *)
(*   SpecShut  the shutdown handler among the frame timer, the save timer  *)
(*            and the subscription socket's events                         *)
(*   SpecRelay the vote client in relay mode, the relay and the delegated  *)
(*            accounts' execute-nonces                                     *)
(*   SpecFrameThrow SpecFrame with a frame callback and a sharp call that  *)
(*            may throw                                                    *)
(*   SpecPress the polling and subscription handlers with the emulator's   *)
(*            pressButton call of the window-result callback, and the      *)
(*            frame timer                                                  *)
(*   SpecOverlap the polling path with overlapping invocations             *)
(***************************************************************************)
EXTENDS Integers, Sequences, FiniteSets, Bags, TLC

(***************************************************************************)
(* Bounds of the model.  windowSize is the WINDOW_SIZE configuration       *)
(* (config.ts, any value >= 1); the model runs it with a small value.      *)
(***************************************************************************)
windowSize == 2

NumWindows == 3

MaxVotes == 2

MaxHash == 1

\* concurrent pollForEvents invocations (the interval timer does not wait
\* for the previous invocation)
MaxPolls == 1

\* how many blocks a delivered block header or the RPC node's head may be
\* behind the chain's latest block
MaxLag == 1

\* VoteCast logs in one block
MaxLogsPerBlock == 2

\* MAX_CACHED_VOTES / MAX_CACHED_ACTIONS configuration (index.ts:104-105,
\* defaults 100 and 50); the model runs them with small values
MAX_CACHED_VOTES == 2

MAX_CACHED_ACTIONS == 1

MaxBlock == NumWindows * windowSize - 1

Blocks == 0..MaxBlock

Hashes == 0..MaxHash

\* subscription sockets connectWebSocket creates in a run of the model
MaxSockets == 2

Sockets == 1..MaxSockets

\* the execute-nonces a relayed account reaches in a run of the model
MaxRelayNonce == 2

\* a tick that carries no block hash (polling path: onBlock(latestBlock))
NoHash == -1

\* config.ts: export const Actions = ["UP", ..., "SELECT"] as const
Actions == <<"UP", "DOWN", "LEFT", "RIGHT", "A", "B", "START", "SELECT">>

ActionNames == {Actions[i] : i \in 1..Len(Actions)}

\* action codes fed to the aggregator: A, B and one code outside 0..7
\* (index.ts decodes the code from the log data without a range check)
ActionCodes == {4, 5, 8}

Players == {"0xa1"}

\* the aggregator instances: run 1 is the indexer's aggregator, run 2 is
\* the second run of the determinism comparison
Runs == {1, 2}

VARIABLES
    currentWindow,  \* [Runs -> Int]        VoteAggregator.currentWindow
    votes,          \* [Runs -> map]        VoteAggregator.votes : windowId -> Vote[]
    results,        \* [Runs -> Seq]        results passed to onWindowComplete, in order
    causes,         \* [Runs -> Seq]        history: the call that emitted results[i]
    maxTick,        \* [Runs -> Int]        history: window of the largest block seen by
                    \*                      onBlock (a tick with block >= (k+1)*windowSize
                    \*                      has been seen iff maxTick >= k+1)
    added,          \* [Runs -> SUBSET Vote] history: votes passed to addVote
    nAdded,         \* [Runs -> Nat]        history: number of addVote calls
    feed,           \* [Runs -> Seq(Vote)]  SpecDet: votes still to be fed to each run
    detTick,        \* [block, hash]        SpecDet: the tick both runs are given
    head,           \* chain: number of the latest block
    chainLogs,      \* chain: the VoteCast logs of blocks 0..head
    seenEvents,     \* index.ts seenEvents: set of event keys
    recentVotes,    \* index.ts recentVotes: circular buffer of CachedVote
    recentActions,  \* index.ts recentActions: circular buffer of CachedAction
    lastPolledBlock,     \* index.ts lastPolledBlock
    lastWebSocketBlock,  \* index.ts lastWebSocketBlock
    polls,          \* bag of the pollForEvents invocations in flight (awaiting an RPC)
    accepted,       \* history: the logs for which processVoteEvent returned true
    ioLog,          \* history: the io.emit("vote") / io.emit("windowResult") broadcasts,
                    \*          in order
    ioSockets,      \* Socket.io server: the connected sockets of the event channel
    ioReceived,     \* history: [IoConns -> the events sent to the socket, in order]
    frameCount,     \* emulator: raw frames produced so far (frame ids 1..frameCount)
    compressing,    \* emulator: the frames whose sharp compression has not settled
    compressionInFlight,  \* GameBoyEmulator.compressionInFlight
    queuedFrame,    \* GameBoyEmulator.queuedFrame: <<>> (null) or <<frame>>
    emitted,        \* history: the frame last passed to onFrame (0: none yet)
    failures,       \* history: number of rejected compressions
    replaced,       \* history: the frames overwritten in the queued slot
    started,        \* history: the frames ever passed to compressAndEmit
    lastDeferred,   \* history: the latest frame that found no free slot (0: none yet)
    pendingButton,  \* GameBoyEmulator.pendingButton: <<>> (null) or <<button>>
    buttonFramesRemaining,  \* GameBoyEmulator.buttonFramesRemaining
    lastPress,      \* history: the latest pressButton call that set the pending button
    coreCalls,      \* history: the pressKey / doFrame calls made on the emulator core
                    \*          since that pressButton call, in order
    cachedGameState,  \* index.ts cachedGameState: <<>> (null) or <<GameState>>
    lastSample,     \* history: what getGameState returned to the latest sampler run
    sampleBroadcast,  \* history: the latest sampler run did io.emit("gameState")
    sampleTick,     \* history: flips at every sampler run
    nonces,         \* SimpleDelegation.nonces of each delegated account, at its own key
    now,            \* chain: block.timestamp
    lastExec,       \* history: the latest execute transaction and its outcome
    voteCastLog,    \* chain: the events emitted by MonadPlaysPokemon, in order
    mppStorage,     \* chain: the storage of MonadPlaysPokemon (slot -> value)
    lastVoteCall,   \* history: the latest vote transaction and its outcome
    connState,      \* frame server: [Conns -> "none" | "OPEN" | "CLOSING" | "ERRORED" | "CLOSED"]
    frameClients,   \* index.ts frameClients: Set<WebSocket>
    received,       \* history: [Conns -> the messages sent to the spectator, in order]
    polledOnce,     \* SpecPoll history: a pollForEvents invocation has set lastPolledBlock
    lastEvent,      \* history: the latest connection / close / error event handled
    framesBroadcast, \* history: number of runs of the frame callback
    upSockets,      \* [Sockets -> "none" | "CONNECTING" | "OPEN" | "ERRORED" | "CLOSED"],
                    \* the sockets connectWebSocket has created, in order
    rpcWs,          \* index.ts ws: the socket created last (0: none yet)
    wsTimers,       \* the event loop's pending timers set by the close handler
    wsReconnectTimeout, \* index.ts wsReconnectTimeout: <<>> (null) or <<handle>>
    newHeadsSubId,  \* index.ts newHeadsSubId: <<>> (null) or <<id>>
    logsSubId,      \* index.ts logsSubId: <<>> (null) or <<id>>
    wsConfirmed,    \* history: [Sockets -> the request ids confirmed on the socket]
    lastRouted,     \* history: the latest notification handed to the aggregator
    isRunning,      \* GameBoyEmulator.isRunning (the frame timer is set while it is true)
    listening,      \* httpServer: listening for connections
    exitCode,       \* the process: <<>> while it runs, <<code>> after process.exit(code)
    shutdownLog,    \* history: the calls the shutdown handler has made, in order
    savedFrame,     \* history: the value of frameCount at the latest saveState()
    relayCache,     \* VoteButtons relayCache.current: [address, isDelegated, nonce],
                    \* each <<>> (null) or <<value>>
    relayRequest,   \* <<>> or <<the POST /relay request awaiting its response>>
    relayLast,      \* history: the latest finished relay attempt and its outcome
    delegatedUsers, \* chain: the accounts that carry the delegation
    execNonce       \* chain: [RelayUsers -> the execute-nonce in the account's storage]

aggVars == <<currentWindow, votes, results, causes, maxTick, added, nAdded>>

detVars == <<feed, detTick>>

idxVars == <<head, chainLogs, seenEvents, recentVotes, recentActions,
             lastPolledBlock, lastWebSocketBlock, polls, accepted, ioLog,
             ioSockets, ioReceived>>

coreVars == <<aggVars, detVars, idxVars>>

frameVars == <<frameCount, compressing, compressionInFlight, queuedFrame, emitted, failures,
               replaced, started, lastDeferred>>

buttonVars == <<pendingButton, buttonFramesRemaining, lastPress, coreCalls>>

gameVars == <<cachedGameState, lastSample, sampleBroadcast, sampleTick>>

delegVars == <<nonces, now, lastExec>>

voteVars == <<voteCastLog, mppStorage, lastVoteCall>>

viewVars == <<connState, frameClients, received, lastEvent, framesBroadcast>>

relayVars == <<relayCache, relayRequest, relayLast, delegatedUsers, execNonce>>

shutVars == <<isRunning, listening, exitCode, shutdownLog, savedFrame>>

wsVars == <<upSockets, rpcWs, wsTimers, wsReconnectTimeout, newHeadsSubId, logsSubId,
            wsConfirmed, lastRouted>>

\* the subsystems beside the aggregator and the ingestion
sideVars == <<frameVars, buttonVars, gameVars, delegVars, voteVars, viewVars, polledOnce,
              wsVars, shutVars, relayVars>>

\* what an action of one subsystem leaves alone (outsideFrame: what lies
\* outside the emulator)
outsideFrame == <<coreVars, gameVars, delegVars, voteVars, viewVars, polledOnce, wsVars, shutVars,
        relayVars>>

outsideGame == <<aggVars, detVars, head, chainLogs, seenEvents, recentVotes, recentActions,
                 lastPolledBlock, lastWebSocketBlock, polls, accepted, ioLog, ioSockets,
                 frameVars, buttonVars, delegVars, voteVars, viewVars, polledOnce, wsVars,
                 shutVars, relayVars>>

outsideDeleg == <<coreVars, frameVars, buttonVars, gameVars, voteVars, viewVars, polledOnce,
                  wsVars, shutVars, relayVars>>

outsideVote == <<coreVars, frameVars, buttonVars, gameVars, delegVars, viewVars, polledOnce,
                 wsVars, shutVars, relayVars>>

outsideView == <<coreVars, frameVars, buttonVars, gameVars, delegVars, voteVars, polledOnce,
                 wsVars, shutVars, relayVars>>

vars == <<currentWindow, votes, results, causes, maxTick, added, nAdded, feed, detTick,
          head, chainLogs, seenEvents, recentVotes, recentActions,
          lastPolledBlock, lastWebSocketBlock, polls, accepted, ioLog,
          ioSockets, ioReceived,
          frameCount, compressing, compressionInFlight, queuedFrame, emitted, failures,
          replaced, started, lastDeferred,
          pendingButton, buttonFramesRemaining, lastPress, coreCalls,
          cachedGameState, lastSample, sampleBroadcast, sampleTick,
          nonces, now, lastExec, voteCastLog, mppStorage, lastVoteCall,
          connState, frameClients, received, lastEvent, framesBroadcast, polledOnce,
          upSockets, rpcWs, wsTimers, wsReconnectTimeout, newHeadsSubId, logsSubId,
          wsConfirmed, lastRouted,
          isRunning, listening, exitCode, shutdownLog, savedFrame,
          relayCache, relayRequest, relayLast, delegatedUsers, execNonce>>

(***************************************************************************)
(* voteAggregator.ts                                                       *)
(***************************************************************************)

\* variant: Math.ceil in place of Math.floor
getWindowId_ceil(blockNumber) == (blockNumber + windowSize - 1) \div windowSize

\* getWindowId: Math.floor(blockNumber / this.windowSize)
getWindowId(blockNumber) == blockNumber \div windowSize

\* Map helpers (this.votes is a Map<number, Vote[]>)
MapHas(m, k) == k \in DOMAIN m

MapDelete(m, k) == [x \in (DOMAIN m) \ {k} |-> m[x]]

MapSet(m, k, v) == [x \in (DOMAIN m) \cup {k} |-> IF x = k THEN v ELSE m[x]]

EmptyMap == [x \in {} |-> <<>>]

\* Actions[vote.action]: undefined (falsy) for a code outside 0..7
actionNameOf(code) == IF code \in 0..(Len(Actions) - 1) THEN Actions[code + 1] ELSE "undefined"

\* the counting loop of finalizeWindow: voteCounts[actionName]++ when defined
RECURSIVE countVotes(_, _)
countVotes(windowVotes, name) ==
    IF windowVotes = <<>> THEN 0
    ELSE (IF actionNameOf(Head(windowVotes).action) = name THEN 1 ELSE 0)
         + countVotes(Tail(windowVotes), name)

voteCountsOf(windowVotes) == [name \in ActionNames |-> countVotes(windowVotes, name)]

\* the election loop of finalizeWindow, from index i of Actions on:
\* if (voteCounts[action] > maxVotes) { maxVotes = ...; winningAction = action }
RECURSIVE electFrom(_, _, _, _)
electFrom(voteCounts, i, winningAction, maxVotes) ==
    IF i > Len(Actions) THEN winningAction
    ELSE IF voteCounts[Actions[i]] > maxVotes
         THEN electFrom(voteCounts, i + 1, Actions[i], voteCounts[Actions[i]])
         ELSE electFrom(voteCounts, i + 1, winningAction, maxVotes)

\* variant: the election loop runs over the votes in arrival order instead
\* of over Actions
RECURSIVE electArrival(_, _, _, _)
electArrival(voteCounts, windowVotes, winningAction, maxVotes) ==
    IF windowVotes = <<>> THEN winningAction
    ELSE LET name == actionNameOf(Head(windowVotes).action)
         IN  IF name \in ActionNames /\ voteCounts[name] > maxVotes
             THEN electArrival(voteCounts, Tail(windowVotes), name, voteCounts[name])
             ELSE electArrival(voteCounts, Tail(windowVotes), winningAction, maxVotes)

electWinner_arrival(windowVotes) ==
    electArrival(voteCountsOf(windowVotes), windowVotes, "UP", 0)

\* let winningAction = "UP"; let maxVotes = 0; for (const action of Actions) ...
electWinner(windowVotes) == electFrom(voteCountsOf(windowVotes), 1, "UP", 0)

\* totalVotes: windowVotes.length
totalVotesOf(windowVotes) == Len(windowVotes)

\* variant: the empty-window check is missing
skipsWindow_never(windowVotes) == FALSE

\* "Skip windows with no votes": windowVotes.length === 0
skipsWindow(windowVotes) == Len(windowVotes) = 0

\* finalizeWindow on an aggregator value a; cause is the history record of
\* the calling operation
finalizeWindow(a, windowId, cause) ==
    LET windowVotes == IF MapHas(a.votes, windowId) THEN a.votes[windowId] ELSE <<>>
    IN  IF skipsWindow(windowVotes)
        THEN [a EXCEPT !.votes = MapDelete(a.votes, windowId)]
        ELSE LET result == [windowId      |-> windowId,
                            startBlock    |-> windowId * windowSize,
                            endBlock      |-> (windowId + 1) * windowSize - 1,
                            winningAction |-> electWinner(windowVotes),
                            votes         |-> voteCountsOf(windowVotes),
                            totalVotes    |-> totalVotesOf(windowVotes)]
             IN  [a EXCEPT !.votes   = MapDelete(a.votes, windowId),
                           !.results = Append(a.results, result),
                           !.causes  = Append(a.causes, [cause EXCEPT !.ballots = windowVotes])]

\* for (let w = this.currentWindow; w < windowId; w++) this.finalizeWindow(w)
\* (finalizeWindow returns at its empty check for a window without an entry
\* in the map and changes nothing, so the loop is unfolded only for the
\* windows from w on that have an entry)
RECURSIVE finalizeLoop(_, _, _, _)
finalizeLoop(a, w, windowId, cause) ==
    IF w >= windowId THEN a
    ELSE IF skipsWindow(<<>>) /\ ~MapHas(a.votes, w)
    THEN LET later == {k \in DOMAIN a.votes : k > w /\ k < windowId}
         IN  IF later = {} THEN a
             ELSE finalizeLoop(a, CHOOSE k \in later : \A j \in later : k <= j,
                               windowId, cause)
    ELSE finalizeLoop(finalizeWindow(a, w, cause), w + 1, windowId, cause)

\* history record of a call: the operation, its block and hash arguments, the
\* clock before the call and the largest tick window seen so far
Cause(op, a, blockNumber, blockHash) ==
    [op |-> op, block |-> blockNumber, hash |-> blockHash,
     cwBefore |-> a.currentWindow, maxTick |-> a.maxTick, ballots |-> <<>>]

\* variant: the vote is pushed twice
storeVote_twice(m, windowId, vote) ==
    MapSet(m, windowId,
           Append(Append(IF MapHas(m, windowId) THEN m[windowId] ELSE <<>>, vote), vote))

\* "this.votes.get(windowId)!.push(...)" after "if (!this.votes.has(windowId)) set []"
storeVote(m, windowId, vote) ==
    MapSet(m, windowId, Append(IF MapHas(m, windowId) THEN m[windowId] ELSE <<>>, vote))

\* addVote(player, action, blockNumber) on an aggregator value
addVote(a, player, action, blockNumber) ==
    LET windowId == getWindowId(blockNumber)
        a0       == IF a.currentWindow = -1 THEN [a EXCEPT !.currentWindow = windowId] ELSE a
        cause    == Cause("addVote", a, blockNumber, NoHash)
        a1       == IF windowId > a0.currentWindow
                    THEN [finalizeLoop(a0, a0.currentWindow, windowId, cause)
                            EXCEPT !.currentWindow = windowId]
                    ELSE a0
        vote     == [player |-> player, action |-> action, blockNumber |-> blockNumber]
    IN  [a1 EXCEPT !.votes  = storeVote(a1.votes, windowId, vote),
                   !.added  = @ \cup {vote},
                   !.nAdded = @ + 1]

\* variant: the clock follows every tick, also backwards
clockAfterBlock_follow(cw, windowId) == windowId

\* the window clock after onBlock sees windowId while the clock shows cw:
\* if (windowId > this.currentWindow) { ...; this.currentWindow = windowId }
clockAfterBlock(cw, windowId) == IF windowId > cw THEN windowId ELSE cw

\* onBlock(blockNumber) on an aggregator value; the subscription handler also
\* passes the block hash (index.ts:488), which the method does not take
onBlock(a, blockNumber, blockHash) ==
    LET windowId == getWindowId(blockNumber)
        t        == [a EXCEPT !.maxTick = IF windowId > @ THEN windowId ELSE @]
        cause    == Cause("onBlock", t, blockNumber, blockHash)
    IN  IF a.currentWindow = -1
        THEN [t EXCEPT !.currentWindow = windowId]
        ELSE [(IF windowId > a.currentWindow
               THEN finalizeLoop(t, a.currentWindow, windowId, cause)
               ELSE t)
                EXCEPT !.currentWindow = clockAfterBlock(a.currentWindow, windowId)]

\* variant: the increment is missing
clockAfterForce_stay(cw) == cw

\* this.currentWindow++ of forceFinalize
clockAfterForce(cw) == cw + 1

\* forceFinalize() on an aggregator value
forceFinalize(a) ==
    IF a.currentWindow >= 0
    THEN [finalizeWindow(a, a.currentWindow, Cause("forceFinalize", a, -1, NoHash))
            EXCEPT !.currentWindow = clockAfterForce(a.currentWindow)]
    ELSE a

\* new VoteAggregator(windowSize, onWindowComplete)
NewAggregator ==
    [currentWindow |-> -1, votes |-> EmptyMap, results |-> <<>>, causes |-> <<>>,
     maxTick |-> -1, added |-> {}, nAdded |-> 0]

\* the aggregator of run r as a value, and its update
aggOf(r) ==
    [currentWindow |-> currentWindow[r], votes |-> votes[r], results |-> results[r],
     causes |-> causes[r], maxTick |-> maxTick[r], added |-> added[r],
     nAdded |-> nAdded[r]]

SetAgg(r, a) ==
    /\ currentWindow' = [currentWindow EXCEPT ![r] = a.currentWindow]
    /\ votes' = [votes EXCEPT ![r] = a.votes]
    /\ results' = [results EXCEPT ![r] = a.results]
    /\ causes' = [causes EXCEPT ![r] = a.causes]
    /\ maxTick' = [maxTick EXCEPT ![r] = a.maxTick]
    /\ added' = [added EXCEPT ![r] = a.added]
    /\ nAdded' = [nAdded EXCEPT ![r] = a.nAdded]

AddVote(r, player, action, blockNumber) ==
    SetAgg(r, addVote(aggOf(r), player, action, blockNumber))

OnBlock(r, blockNumber, blockHash) ==
    SetAgg(r, onBlock(aggOf(r), blockNumber, blockHash))

ForceFinalize(r) == SetAgg(r, forceFinalize(aggOf(r)))

AggInit ==
    /\ currentWindow = [r \in Runs |-> NewAggregator.currentWindow]
    /\ votes = [r \in Runs |-> NewAggregator.votes]
    /\ results = [r \in Runs |-> NewAggregator.results]
    /\ causes = [r \in Runs |-> NewAggregator.causes]
    /\ maxTick = [r \in Runs |-> NewAggregator.maxTick]
    /\ added = [r \in Runs |-> NewAggregator.added]
    /\ nAdded = [r \in Runs |-> NewAggregator.nAdded]

NoTick == [block |-> 0, hash |-> NoHash]

\* event-channel connections made in a run of the model
MaxIoConns == 1

IoConns == 1..MaxIoConns

DetIdle == feed = [r \in Runs |-> <<>>] /\ detTick = NoTick

\* module state of index.ts at start-up, and the chain at block 0
IdxInit ==
    /\ head = 0
    /\ chainLogs = {}
    /\ seenEvents = {}
    /\ recentVotes = <<>>
    /\ recentActions = <<>>
    /\ lastPolledBlock = 0
    /\ lastWebSocketBlock = 0
    /\ polls = EmptyBag
    /\ accepted = {}
    /\ ioLog = <<>>
    /\ ioSockets = {}
    /\ ioReceived = [c \in IoConns |-> <<>>]

\* new GameBoyEmulator(...): compressionInFlight = 0, queuedFrame = null
FrameInit ==
    /\ frameCount = 0
    /\ compressing = {}
    /\ compressionInFlight = 0
    /\ queuedFrame = <<>>
    /\ emitted = 0
    /\ failures = 0
    /\ replaced = {}
    /\ started = {}
    /\ lastDeferred = 0

NoPress == [button |-> "none", durationFrames |-> 0]

\* pendingButton = null, buttonFramesRemaining = 0
ButtonInit ==
    /\ pendingButton = <<>>
    /\ buttonFramesRemaining = 0
    /\ lastPress = NoPress
    /\ coreCalls = <<>>

\* let cachedGameState: GameState | null = null
GameInit ==
    /\ cachedGameState = <<>>
    /\ lastSample = <<>>
    /\ sampleBroadcast = FALSE
    /\ sampleTick = FALSE

\* the delegated accounts (EOAs whose code is SimpleDelegation)
Owners == {"0xa1", "0xb2"}

\* execute-nonce up to which the model runs an account
MaxNonce == 2

\* block.timestamp and deadlines run over 0..MaxTime
MaxTime == 2

Times == 0..MaxTime

NoExec == [owner |-> "none", ok |-> FALSE, consumed |-> <<>>]

\* mapping(address => uint256) public nonces: all zero before any call
DelegInit ==
    /\ nonces = [o \in Owners |-> 0]
    /\ now = 0
    /\ lastExec = NoExec

\* MonadPlaysPokemon declares no state variable: every slot is unwritten
EmptyStorage == [slot \in {} |-> 0]

NoVoteCall == [sender |-> "none", action |-> 0, ok |-> FALSE]

VoteInit ==
    /\ voteCastLog = <<>>
    /\ mppStorage = EmptyStorage
    /\ lastVoteCall = NoVoteCall

\* frame spectator connections made in a run of the model
MaxConns == 2

Conns == 1..MaxConns

NoEvent == [conn |-> 0, type |-> "none"]

\* const frameClients = new Set<WebSocket>()
ViewInit ==
    /\ connState = [c \in Conns |-> "none"]
    /\ frameClients = {}
    /\ received = [c \in Conns |-> <<>>]
    /\ lastEvent = NoEvent
    /\ framesBroadcast = 0

NoRouted == [socket |-> 0, id |-> 0, flip |-> FALSE]

\* let ws; let wsReconnectTimeout = null; let newHeadsSubId = null;
\* let logsSubId = null
WsInit ==
    /\ upSockets = [k \in Sockets |-> "none"]
    /\ rpcWs = 0
    /\ wsTimers = {}
    /\ wsReconnectTimeout = <<>>
    /\ newHeadsSubId = <<>>
    /\ logsSubId = <<>>
    /\ wsConfirmed = [k \in Sockets |-> {}]
    /\ lastRouted = NoRouted

RelayUsers == {"0xa1", "0xb2"}

NoAttempt == [address |-> "none", nonce |-> 0, authorization |-> FALSE,
              isDelegated |-> FALSE, fetched |-> FALSE, outcome |-> "none"]

\* useRef<RelaySessionCache>({address: null, isDelegated: null, nonce: null});
\* no account is delegated yet
RelayInit ==
    /\ relayCache = [address |-> <<>>, isDelegated |-> <<>>, nonce |-> <<>>]
    /\ relayRequest = <<>>
    /\ relayLast = NoAttempt
    /\ delegatedUsers = {}
    /\ execNonce = [u \in RelayUsers |-> 0]

\* main: httpServer.listen(...), emulator.start(STREAM_FPS); the process runs
ShutInit ==
    /\ isRunning = TRUE
    /\ listening = TRUE
    /\ exitCode = <<>>
    /\ shutdownLog = <<>>
    /\ savedFrame = 0

SideInit ==
    /\ FrameInit /\ ButtonInit /\ GameInit /\ DelegInit /\ VoteInit /\ ViewInit
    /\ polledOnce = FALSE
    /\ WsInit
    /\ ShutInit
    /\ RelayInit

(***************************************************************************)
(* SpecAgg: one aggregator, any sequence of calls                          *)
(***************************************************************************)
AggAddVote ==
    \E player \in Players, action \in ActionCodes, blockNumber \in Blocks :
        /\ nAdded[1] < MaxVotes
        /\ AddVote(1, player, action, blockNumber)
        /\ UNCHANGED <<detVars, idxVars, sideVars>>

AggOnBlock ==
    \E blockNumber \in Blocks, blockHash \in Hashes \cup {NoHash} :
        /\ OnBlock(1, blockNumber, blockHash)
        /\ UNCHANGED <<detVars, idxVars, sideVars>>

AggForceFinalize ==
    /\ currentWindow[1] < NumWindows
    /\ ForceFinalize(1)
    /\ UNCHANGED <<detVars, idxVars, sideVars>>

InitAgg == AggInit /\ DetIdle /\ IdxInit /\ SideInit

NextAgg == AggAddVote \/ AggOnBlock \/ AggForceFinalize

SpecAgg == InitAgg /\ [][NextAgg]_vars

(***************************************************************************)
(* SpecDet: two runs of the aggregator.  Both are fed the same votes of    *)
(* window 0, run 2 in a permuted arrival order, and then the same tick.    *)
(***************************************************************************)
DetVotes ==
    [player : Players, action : ActionCodes, blockNumber : 0..(windowSize - 1)]

DetScripts == UNION {[1..n -> DetVotes] : n \in 1..MaxVotes}

Perms(n) == {p \in [1..n -> 1..n] : \A i, j \in 1..n : i /= j => p[i] /= p[j]}

InitDet ==
    /\ AggInit
    /\ IdxInit
    /\ SideInit
    /\ \E s \in DetScripts : \E p \in Perms(Len(s)) :
          feed = [r \in Runs |-> IF r = 1 THEN s ELSE [i \in 1..Len(s) |-> s[p[i]]]]
    /\ detTick \in [block : Blocks, hash : Hashes \cup {NoHash}]

\* the runs are independent; run 2 starts when run 1 has been given its tick
DetTurn(r) == r = 1 \/ (feed[1] = <<>> /\ maxTick[1] >= 0)

DetAddVote ==
    \E r \in Runs :
        /\ DetTurn(r)
        /\ feed[r] /= <<>>
        /\ AddVote(r, Head(feed[r]).player, Head(feed[r]).action, Head(feed[r]).blockNumber)
        /\ feed' = [feed EXCEPT ![r] = Tail(@)]
        /\ UNCHANGED <<detTick, idxVars, sideVars>>

DetOnBlock ==
    \E r \in Runs :
        /\ DetTurn(r)
        /\ feed[r] = <<>>
        /\ maxTick[r] = -1
        /\ OnBlock(r, detTick.block, detTick.hash)
        /\ UNCHANGED <<detVars, idxVars, sideVars>>

NextDet == DetAddVote \/ DetOnBlock

SpecDet == InitDet /\ [][NextDet]_vars

(***************************************************************************)
(* index.ts: ingestion.  The chain produces blocks holding VoteCast logs;  *)
(* the subscription handler and pollForEvents feed them to aggregator 1.   *)
(***************************************************************************)

\* MonadPlaysPokemon.vote takes the enum Action, so the contract's logs carry
\* the codes 0..7 only; the ingestion model runs with the code of A alone
\* (the election over several codes is examined in SpecAgg and SpecDet)
ContractActionCodes == {a \in ActionCodes \cap (0..(Len(Actions) - 1)) : a <= 4}

\* the chain of the ingestion model runs to the first block of the first
\* window whose start cleanupOldEvents can take as minBlockToKeep
MaxHead == 3 * windowSize

\* the block numbers an upstream can report while the chain is at head
ReportedHeads == {b \in 0..MaxHead : head - MaxLag <= b /\ b <= head}

\* the hash of block b
hashOf(b) == b % (MaxHash + 1)

\* getEventKey: `${blockNumber}-${txHash}-${logIndex}`
getEventKey(blockNumber, txHash, logIndex) == <<blockNumber, txHash, logIndex>>

\* variant: the newest item is dropped when the buffer is full
addToCircularBuffer_dropNewest(buffer, item, maxSize) ==
    LET pushed == Append(buffer, item)
    IN  IF Len(pushed) > maxSize THEN SubSeq(pushed, 1, maxSize) ELSE pushed

\* addToCircularBuffer(buffer, item, maxSize)
addToCircularBuffer(buffer, item, maxSize) ==
    LET pushed == Append(buffer, item)
    IN  IF Len(pushed) > maxSize THEN Tail(pushed) ELSE pushed

\* the VoteAggregator callback of index.ts, for each result in turn
\* (timestamps are left out of the cached records)
RECURSIVE onWindowComplete(_, _)
onWindowComplete(buffer, newResults) ==
    IF newResults = <<>> THEN buffer
    ELSE onWindowComplete(addToCircularBuffer(buffer, Head(newResults), MAX_CACHED_ACTIONS),
                          Tail(newResults))

\* the results an aggregator call appended
emittedBy(before, after) == SubSeq(after.results, Len(before.results) + 1, Len(after.results))

\* io.emit("windowResult", result) of the VoteAggregator callback, for each
\* result in turn
windowResultEvents(newResults) ==
    [i \in 1..Len(newResults) |-> [type |-> "windowResult", payload |-> newResults[i]]]

\* io.emit("vote", voteData)
voteEvent(voteData) == [type |-> "vote", payload |-> voteData]

\* the indexer's mutable state as a value, and its update
idxOf ==
    [agg |-> aggOf(1), seenEvents |-> seenEvents, recentVotes |-> recentVotes,
     recentActions |-> recentActions, accepted |-> accepted, ioLog |-> ioLog,
     ioSockets |-> ioSockets, ioReceived |-> ioReceived]

SetIdx(x) ==
    /\ SetAgg(1, x.agg)
    /\ seenEvents' = x.seenEvents
    /\ recentVotes' = x.recentVotes
    /\ recentActions' = x.recentActions
    /\ accepted' = x.accepted
    /\ ioLog' = x.ioLog
    /\ ioSockets' = x.ioSockets
    /\ ioReceived' = x.ioReceived

\* the events reach every connected socket of the event channel, in order
ioDeliver(sockets, sent, events) ==
    [c \in IoConns |-> IF c \in sockets THEN sent[c] \o events ELSE sent[c]]

\* io.emit(...) for each event in turn
ioEmit(x, events) ==
    [x EXCEPT !.ioLog = @ \o events,
              !.ioReceived = ioDeliver(x.ioSockets, @, events)]

\* aggregator.onBlock(blockNumber, blockHash) with the callback of index.ts
tick(x, blockNumber, blockHash) ==
    LET a1 == onBlock(x.agg, blockNumber, blockHash)
    IN  ioEmit([x EXCEPT !.agg = a1,
                         !.recentActions = onWindowComplete(@, emittedBy(x.agg, a1))],
               windowResultEvents(emittedBy(x.agg, a1)))

\* processVoteEvent(player, action, blockNumber, txHash, logIndex, source)
processVoteEvent(x, log) ==
    LET eventKey == getEventKey(log.blockNumber, log.txHash, log.logIndex)
    IN  IF eventKey \in x.seenEvents
        THEN x
        ELSE LET a1       == addVote(x.agg, log.player, log.action, log.blockNumber)
                 voteData == [player |-> log.player, action |-> actionNameOf(log.action),
                              blockNumber |-> log.blockNumber, txHash |-> log.txHash]
             IN  ioEmit([x EXCEPT
                           !.agg           = a1,
                           !.seenEvents    = @ \cup {eventKey},
                           !.recentActions = onWindowComplete(@, emittedBy(x.agg, a1)),
                           !.recentVotes   = addToCircularBuffer(@, voteData, MAX_CACHED_VOTES),
                           !.accepted      = @ \cup {log}],
                        windowResultEvents(emittedBy(x.agg, a1)) \o <<voteEvent(voteData)>>)

\* the chain appends a block with up to MaxLogsPerBlock VoteCast logs
ChainBlock ==
    /\ head < MaxHead
    /\ \E n \in 0..MaxLogsPerBlock : \E acts \in [1..n -> ContractActionCodes] :
          \E player \in Players :
            /\ Cardinality(chainLogs) + n <= MaxVotes
            /\ chainLogs' = chainLogs \cup
                  {[blockNumber |-> head + 1, txHash |-> i, logIndex |-> 0,
                    player |-> player, action |-> acts[i]] : i \in 1..n}
    /\ head' = head + 1
    /\ UNCHANGED <<aggVars, detVars, seenEvents, recentVotes, recentActions,
                   lastPolledBlock, lastWebSocketBlock, polls, accepted, ioLog, ioSockets, ioReceived,
                   sideVars>>

\* subscription handler, subId === newHeadsSubId, for the header of block
\* blockNumber
newHeadsBranch(blockNumber) ==
    /\ lastWebSocketBlock' = IF blockNumber > lastWebSocketBlock
                             THEN blockNumber ELSE lastWebSocketBlock
    /\ SetIdx(tick(idxOf, blockNumber, hashOf(blockNumber)))
    /\ UNCHANGED <<detVars, head, chainLogs, lastPolledBlock, polls>>

\* a block header arrives on a socket whose state the model leaves out
onNewHead(blockNumber) == newHeadsBranch(blockNumber) /\ UNCHANGED sideVars

\* subscription handler, subId === newHeadsSubId: a block header arrives
WsNewHead == \E blockNumber \in ReportedHeads : onNewHead(blockNumber)

\* subscription handler, subId === logsSubId, for one VoteCast log
logsBranch(log) ==
    /\ nAdded[1] <= MaxVotes
    /\ SetIdx(processVoteEvent(idxOf, log))
    /\ UNCHANGED <<detVars, head, chainLogs, lastPolledBlock, lastWebSocketBlock, polls>>

\* a VoteCast log arrives on a socket whose state the model leaves out
onLog(log) == logsBranch(log) /\ UNCHANGED sideVars

\* subscription handler, subId === logsSubId: a VoteCast log arrives
WsLog == \E log \in chainLogs : onLog(log)

\* const MAX_BLOCK_RANGE = 100
MAX_BLOCK_RANGE == 100

Max(a, b) == IF a > b THEN a ELSE b

Min(a, b) == IF a < b THEN a ELSE b

\* pollForEvents: the start of the query range
pollFromBlock(latestBlock) ==
    LET fromBlock == IF lastPolledBlock > 0
                     THEN lastPolledBlock + 1
                     ELSE Max(0, latestBlock - windowSize * 2)
    IN  IF latestBlock - fromBlock > MAX_BLOCK_RANGE * 10
        THEN latestBlock - MAX_BLOCK_RANGE
        ELSE fromBlock

\* pollForEvents: the end of the query range
pollToBlock(latestBlock, fromBlock) == Min(latestBlock, fromBlock + MAX_BLOCK_RANGE - 1)

\* an invocation awaiting httpProvider.getBlockNumber()
AwaitingBlockNumber == [pc |-> "getBlockNumber", latestBlock |-> 0, fromBlock |-> 0, toBlock |-> 0]

PollAdd(p) == polls (+) SetToBag({p})

PollRemove(p) == polls (-) SetToBag({p})

\* the poll timer fires (or main makes the initial call): pollForEvents starts
\* and awaits httpProvider.getBlockNumber(); a run of the model holds at most
\* `most` pending invocations
startPoll(most) ==
    /\ BagCardinality(polls) < most
    /\ polls' = PollAdd(AwaitingBlockNumber)
    /\ UNCHANGED <<aggVars, detVars, head, chainLogs, seenEvents, recentVotes,
                   recentActions, lastPolledBlock, lastWebSocketBlock, accepted, ioLog, ioSockets, ioReceived,
                   sideVars>>

\* pollForEvents starts while fewer than MaxPolls invocations are pending
PollStart == startPoll(MaxPolls)

\* getBlockNumber() resolves with latestBlock; pollForEvents runs up to its
\* return or up to the await of queryFilter
blockNumberBranch(latestBlock) ==
    /\ BagIn(AwaitingBlockNumber, polls)
    /\ LET fromBlock == pollFromBlock(latestBlock)
           rest      == PollRemove(AwaitingBlockNumber)
       IN  IF fromBlock > latestBlock
           THEN /\ polls' = rest
                /\ IF latestBlock > lastWebSocketBlock
                   THEN SetIdx(tick(idxOf, latestBlock, NoHash))
                   ELSE UNCHANGED <<aggVars, seenEvents, recentVotes, recentActions,
                                    accepted, ioLog, ioSockets, ioReceived>>
           ELSE /\ polls' = rest (+) SetToBag({
                               [pc |-> "queryFilter", latestBlock |-> latestBlock,
                                fromBlock |-> fromBlock,
                                toBlock |-> pollToBlock(latestBlock, fromBlock)]})
                /\ UNCHANGED <<aggVars, seenEvents, recentVotes, recentActions,
                               accepted, ioLog, ioSockets, ioReceived>>
    /\ UNCHANGED <<detVars, head, chainLogs, lastPolledBlock, lastWebSocketBlock>>

\* getBlockNumber() resolves in a model that leaves the emulator out
onBlockNumber(latestBlock) == blockNumberBranch(latestBlock) /\ UNCHANGED sideVars

\* getBlockNumber() resolves
PollBlockNumber == \E latestBlock \in ReportedHeads : onBlockNumber(latestBlock)

\* the logs of the chain in [fromBlock, toBlock], in chain order
RECURSIVE logsInOrder(_)
logsInOrder(logs) ==
    IF logs = {} THEN <<>>
    ELSE LET first == CHOOSE l \in logs : \A m \in logs :
                          \/ l.blockNumber < m.blockNumber
                          \/ (l.blockNumber = m.blockNumber /\ l.txHash <= m.txHash)
         IN  <<first>> \o logsInOrder(logs \ {first})

queryFilter(fromBlock, toBlock) ==
    logsInOrder({l \in chainLogs : fromBlock <= l.blockNumber /\ l.blockNumber <= toBlock})

\* for (const event of events) processVoteEvent(...)
RECURSIVE processEvents(_, _)
processEvents(x, events) ==
    IF events = <<>> THEN x
    ELSE processEvents(processVoteEvent(x, Head(events)), Tail(events))

\* queryFilter() of invocation p resolves; pollForEvents runs to its end
onQueryResult(p) ==
    /\ p.pc = "queryFilter"
    /\ LET x1 == processEvents(idxOf, queryFilter(p.fromBlock, p.toBlock))
       IN  /\ lastPolledBlock' = p.toBlock
           /\ SetIdx(tick(x1, p.latestBlock, NoHash))
    /\ polls' = PollRemove(p)
    /\ UNCHANGED <<detVars, head, chainLogs, lastWebSocketBlock>>

\* queryFilter() resolves
PollLogs == \E p \in BagToSet(polls) : onQueryResult(p) /\ UNCHANGED sideVars

\* an RPC call of pollForEvents rejects: the catch block logs and returns
PollError ==
    \E p \in BagToSet(polls) :
        /\ polls' = PollRemove(p)
        /\ UNCHANGED <<aggVars, detVars, head, chainLogs, seenEvents, recentVotes,
                       recentActions, lastPolledBlock, lastWebSocketBlock, accepted, ioLog, ioSockets, ioReceived,
                       sideVars>>

\* variant: the key of a log in block minBlockToKeep is deleted as well
cleanupOldEvents_inclusive(keys, polledBlock) ==
    {eventKey \in keys : eventKey[1] > ((polledBlock \div windowSize) - 2) * windowSize}

\* cleanupOldEvents: the keys left in seenEvents
cleanupOldEvents(keys, polledBlock) ==
    LET cleanupWindow  == polledBlock \div windowSize
        minBlockToKeep == (cleanupWindow - 2) * windowSize
    IN  {eventKey \in keys : ~(eventKey[1] < minBlockToKeep)}

\* the cleanup timer fires
CleanupOldEvents ==
    /\ seenEvents' = cleanupOldEvents(seenEvents, lastPolledBlock)
    /\ UNCHANGED <<aggVars, detVars, head, chainLogs, recentVotes, recentActions,
                   lastPolledBlock, lastWebSocketBlock, polls, accepted, ioLog, ioSockets, ioReceived,
                   sideVars>>

InitIdx == AggInit /\ DetIdle /\ IdxInit /\ SideInit

NextIdx ==
    \/ ChainBlock
    \/ WsNewHead
    \/ WsLog
    \/ PollStart
    \/ PollBlockNumber
    \/ PollLogs
    \/ PollError
    \/ CleanupOldEvents

SpecIdx == InitIdx /\ [][NextIdx]_vars

(***************************************************************************)
(* SpecPoll: the polling path alone, on a chain that has moved far between *)
(* two polls, so that the clamp to MAX_BLOCK_RANGE and the skip-ahead act  *)
(***************************************************************************)

\* the heads at which the chain is observed: the genesis block, a block
\* within two windows of it, and blocks more than MAX_BLOCK_RANGE and more
\* than 10 * MAX_BLOCK_RANGE further on
FarHeads ==
    {0, 1, MAX_BLOCK_RANGE + 50, 2 * MAX_BLOCK_RANGE + 75, 10 * MAX_BLOCK_RANGE + 200,
     20 * MAX_BLOCK_RANGE + 500}

\* the chain moves on to a later head (no VoteCast log in between)
FarChain ==
    /\ \E b \in FarHeads : b > head /\ head' = b
    /\ UNCHANGED <<aggVars, detVars, chainLogs, seenEvents, recentVotes, recentActions,
                   lastPolledBlock, lastWebSocketBlock, polls, accepted, ioLog,
                   ioSockets, ioReceived, sideVars>>

\* getBlockNumber() resolves with the head or with an earlier head
FarBlockNumber == \E latestBlock \in {b \in FarHeads : b <= head} : onBlockNumber(latestBlock)

\* queryFilter() resolves; the history notes that lastPolledBlock is set
FarLogs ==
    \E p \in BagToSet(polls) :
        /\ onQueryResult(p)
        /\ polledOnce' = TRUE
        /\ UNCHANGED <<frameVars, buttonVars, gameVars, delegVars, voteVars, viewVars, wsVars,
                       shutVars, relayVars>>

InitPoll == AggInit /\ DetIdle /\ IdxInit /\ SideInit

NextPoll == FarChain \/ PollStart \/ FarBlockNumber \/ FarLogs \/ PollError

SpecPoll == InitPoll /\ [][NextPoll]_vars

\* pollForEvents invocations that may be pending at once when the poll timer
\* fires while earlier invocations still await their RPC calls
MaxOverlap == 2

\* the poll timer fires, whether or not an earlier invocation is pending:
\* setInterval(pollForEvents, pollInterval)
OverlapStart == startPoll(MaxOverlap)

NextOverlap == FarChain \/ OverlapStart \/ FarBlockNumber \/ FarLogs \/ PollError

\* the polling path with overlapping invocations
SpecOverlap == InitPoll /\ [][NextOverlap]_vars

\* the VoteCast logs of the far chain: one in block 1 and one in a block
\* that a poll clamped to MAX_BLOCK_RANGE blocks reaches only with its
\* second query
FarVotes ==
    {[blockNumber |-> b, txHash |-> 1, logIndex |-> 0, player |-> player, action |-> 4]
       : b \in {1, MAX_BLOCK_RANGE + 60}, player \in Players}

\* the chain moves on to a later head; the blocks in between hold their logs
FarChainVotes ==
    /\ \E b \in FarHeads :
          /\ b > head
          /\ head' = b
          /\ chainLogs' = chainLogs \cup {l \in FarVotes : l.blockNumber <= b}
    /\ UNCHANGED <<aggVars, detVars, seenEvents, recentVotes, recentActions,
                   lastPolledBlock, lastWebSocketBlock, polls, accepted, ioLog,
                   ioSockets, ioReceived, sideVars>>

\* getBlockNumber() resolves with the chain's head
HeadBlockNumber == onBlockNumber(head)

NextPollFair == FarChainVotes \/ PollStart \/ HeadBlockNumber \/ FarLogs

\* a pending queryFilter() call resolves: the FarLogs steps, as they show
\* on the bag of invocations
QueryResolves ==
    \E p \in BagToSet(polls) : p.pc = "queryFilter" /\ polls' = PollRemove(p)

\* the poll timer keeps firing and every RPC call resolves
SpecPollFair ==
    /\ InitPoll
    /\ [][NextPollFair]_vars
    /\ WF_vars(PollStart)
    /\ WF_vars(HeadBlockNumber)
    /\ WF_polls(QueryResolves)

(***************************************************************************)
(* emulator.ts: the frame pipeline.  The frame timer produces raw frames;  *)
(* compressAndEmit starts a sharp compression whose promise settles later  *)
(* (fulfilled: the frame goes to onFrame; rejected: the frame is dropped). *)
(***************************************************************************)

\* private maxConcurrentCompressions: number = 8
maxConcurrentCompressions == 8

\* raw frames the frame timer produces in a run of the model
MaxFrames == 10

\* runs of the .catch handler of compressAndEmit in a run of the model
MaxFailures == 2

\* the emulator's pipeline fields as a value, and its update
pipeOf ==
    [compressing |-> compressing, compressionInFlight |-> compressionInFlight,
     queuedFrame |-> queuedFrame, replaced |-> replaced, started |-> started,
     lastDeferred |-> lastDeferred]

SetPipe(e) ==
    /\ compressing' = e.compressing
    /\ compressionInFlight' = e.compressionInFlight
    /\ queuedFrame' = e.queuedFrame
    /\ replaced' = e.replaced
    /\ started' = e.started
    /\ lastDeferred' = e.lastDeferred

\* variant: the comparison admits one compression more
slotFree_inclusive(inFlight) == inFlight <= maxConcurrentCompressions

\* this.compressionInFlight < this.maxConcurrentCompressions
slotFree(inFlight) == inFlight < maxConcurrentCompressions

\* compressAndEmit(rawBuffer) up to the return of the promise chain:
\* this.compressionInFlight++; sharp(...).toBuffer() is started
compressAndEmit(e, frame) ==
    [e EXCEPT !.compressionInFlight = @ + 1,
              !.compressing = @ \cup {frame},
              !.started = @ \cup {frame}]

\* the frames held by the queued slot
slotFrames(queued) == {queued[i] : i \in 1..Len(queued)}

\* variant: an occupied slot keeps its frame and the new one is dropped
queueFrame_keepOlder(queued, frame) == IF queued = <<>> THEN <<frame>> ELSE queued

\* this.queuedFrame = rawBuffer
queueFrame(queued, frame) == <<frame>>

\* the frame part of the timer callback of start(): compress at once when a
\* slot is free, else keep the frame as the queued one
onRawFrame(e, frame) ==
    IF slotFree(e.compressionInFlight)
    THEN compressAndEmit(e, frame)
    ELSE [e EXCEPT !.queuedFrame = queueFrame(@, frame),
                   !.replaced = @ \cup (slotFrames(e.queuedFrame)
                                          \ slotFrames(queueFrame(e.queuedFrame, frame))),
                   !.lastDeferred = frame]

\* variant: the settle handlers never take the queued frame
dequeueReady_never(e) == FALSE

\* if (this.queuedFrame && this.compressionInFlight < this.maxConcurrentCompressions)
dequeueReady(e) == e.queuedFrame /= <<>> /\ slotFree(e.compressionInFlight)

\* "Process queued frame if available and slot is free"
processQueued(e) ==
    IF dequeueReady(e)
    THEN compressAndEmit([e EXCEPT !.queuedFrame = <<>>], Head(e.queuedFrame))
    ELSE e

\* the .then handler of compressAndEmit (after onFrame has returned)
onCompressed(e, frame) ==
    processQueued([e EXCEPT !.compressionInFlight = @ - 1,
                            !.compressing = @ \ {frame}])

\* variant: the rejection handler does not give the slot back
afterFailure_leak(inFlight) == inFlight

\* this.compressionInFlight-- of the .catch handler
afterFailure(inFlight) == inFlight - 1

\* the .catch handler of compressAndEmit, for a rejected compression
onCompressionError(e, frame) ==
    processQueued([e EXCEPT !.compressionInFlight = afterFailure(@),
                            !.compressing = @ \ {frame}])

\* frame counts a pressButton call may ask for
MaxDuration == 3

Durations == 0..MaxDuration

\* button names given to pressButton: two keys of BUTTON_MAP and a name that
\* is not a key
Buttons == {"A", "START", "TURBO"}

\* BUTTON_MAP[button]: the serverboy KEYMAP code, <<>> for undefined
BUTTON_MAP(button) ==
    IF button \in ActionNames THEN <<[keymap |-> button]>> ELSE <<>>

\* the button fields as a value, and their update
buttonOf ==
    [pendingButton |-> pendingButton, buttonFramesRemaining |-> buttonFramesRemaining,
     lastPress |-> lastPress, coreCalls |-> coreCalls]

SetButton(b) ==
    /\ pendingButton' = b.pendingButton
    /\ buttonFramesRemaining' = b.buttonFramesRemaining
    /\ lastPress' = b.lastPress
    /\ coreCalls' = b.coreCalls

\* pressButton(button, durationFrames), the emulator being initialised
pressButton(b, button, durationFrames) ==
    IF BUTTON_MAP(button) = <<>>
    THEN b
    ELSE [b EXCEPT !.pendingButton = <<button>>,
                   !.buttonFramesRemaining = durationFrames,
                   !.lastPress = [button |-> button, durationFrames |-> durationFrames],
                   !.coreCalls = <<>>]

\* this.gameboy.pressKey(keyCode) when keyCode !== undefined
pressKey(calls, keyCode) ==
    IF keyCode /= <<>> THEN Append(calls, [op |-> "pressKey", key |-> keyCode]) ELSE calls

\* variant: the pending button is cleared one tick late
buttonDone_late(remaining) == remaining < 0

\* if (this.buttonFramesRemaining <= 0)
buttonDone(remaining) == remaining <= 0

\* "Press button if one is pending" of the timer callback
injectButton(b) ==
    IF b.pendingButton /= <<>> /\ b.buttonFramesRemaining > 0
    THEN [b EXCEPT !.coreCalls = pressKey(@, BUTTON_MAP(Head(b.pendingButton))),
                   !.buttonFramesRemaining = @ - 1,
                   !.pendingButton = IF buttonDone(b.buttonFramesRemaining - 1)
                                     THEN <<>> ELSE @]
    ELSE b

\* this.gameboy.doFrame()
doFrame(b) == [b EXCEPT !.coreCalls = Append(@, [op |-> "doFrame", key |-> <<>>])]

\* the frame timer fires on a running emulator: button injection, doFrame(),
\* getScreen(), then compress or queue
FrameTick ==
    /\ isRunning
    /\ frameCount < MaxFrames
    /\ frameCount' = frameCount + 1
    /\ SetButton(doFrame(injectButton(buttonOf)))
    /\ SetPipe(onRawFrame(pipeOf, frameCount + 1))
    /\ UNCHANGED <<emitted, failures, outsideFrame>>

\* a compression is fulfilled
CompressionDone ==
    \E frame \in compressing :
        /\ emitted' = frame
        /\ SetPipe(onCompressed(pipeOf, frame))
        /\ UNCHANGED <<frameCount, failures, buttonVars, outsideFrame>>

\* a compression is rejected
CompressionFailed ==
    \E frame \in compressing :
        /\ failures < MaxFailures
        /\ failures' = failures + 1
        /\ SetPipe(onCompressionError(pipeOf, frame))
        /\ UNCHANGED <<frameCount, emitted, buttonVars, outsideFrame>>

InitFrame == AggInit /\ DetIdle /\ IdxInit /\ SideInit

NextFrame == FrameTick \/ CompressionDone \/ CompressionFailed

SpecFrame == InitFrame /\ [][NextFrame]_vars

\* a started compression settles: its promise is fulfilled or rejected
CompressionSettles == CompressionDone \/ CompressionFailed

\* SpecFrame in which every started sharp compression eventually settles
SpecFrameFair == SpecFrame /\ WF_vars(CompressionSettles)

\* the .then handler of compressAndEmit when onFrame throws: the counter has
\* been decremented, the rest of the handler is skipped and the rejection
\* reaches the .catch handler, which decrements again and looks at the slot
onCompressedThrows(e, frame) ==
    onCompressionError([e EXCEPT !.compressionInFlight = @ - 1], frame)

\* compressAndEmit when sharp(...) throws synchronously: the counter has been
\* incremented and no compression (no promise chain) exists
compressAndEmitThrows(e) == [e EXCEPT !.compressionInFlight = @ + 1]

\* the .then handler when the compressAndEmit call for the queued frame throws:
\* counter down, onFrame, slot emptied, counter up, throw; then the .catch
\* handler: counter down, and the slot is empty
onCompressedStartThrows(e, frame) ==
    LET settled  == [e EXCEPT !.compressionInFlight = @ - 1,
                              !.compressing = @ \ {frame}]
        dequeued == compressAndEmitThrows([settled EXCEPT !.queuedFrame = <<>>])
    IN  processQueued([dequeued EXCEPT !.compressionInFlight = @ - 1])

\* a compression is fulfilled and the frame callback throws (failures counts
\* the runs of the .catch handler)
CallbackThrows ==
    \E frame \in compressing :
        /\ failures < MaxFailures
        /\ failures' = failures + 1
        /\ emitted' = frame
        /\ SetPipe(onCompressedThrows(pipeOf, frame))
        /\ UNCHANGED <<frameCount, buttonVars, outsideFrame>>

\* a compression is fulfilled, a frame waits, and starting its compression
\* throws
StartThrows ==
    \E frame \in compressing :
        /\ dequeueReady([pipeOf EXCEPT !.compressionInFlight = @ - 1])
        /\ failures < MaxFailures
        /\ failures' = failures + 1
        /\ emitted' = frame
        /\ SetPipe(onCompressedStartThrows(pipeOf, frame))
        /\ UNCHANGED <<frameCount, buttonVars, outsideFrame>>

NextFrameThrow ==
    FrameTick \/ CompressionDone \/ CompressionFailed \/ CallbackThrows \/ StartThrows

\* the frame pipeline with a frame callback that may throw and a sharp call
\* that may throw
SpecFrameThrow == InitFrame /\ [][NextFrameThrow]_vars

\* pressButton is called (index.ts calls it from the window-result callback)
PressButton ==
    \E button \in Buttons, durationFrames \in Durations :
        /\ SetButton(pressButton(buttonOf, button, durationFrames))
        /\ UNCHANGED <<frameVars, outsideFrame>>

InitButton == AggInit /\ DetIdle /\ IdxInit /\ SideInit

NextButton == PressButton \/ FrameTick

SpecButton == InitButton /\ [][NextButton]_vars

(***************************************************************************)
(* index.ts: the game-state sampler.  Every GAME_STATE_INTERVAL the timer  *)
(* reads emulator.getGameState() and broadcasts it when it differs from    *)
(* cachedGameState.                                                        *)
(***************************************************************************)

\* const partyCount = Math.min(memory[0xD163] || 0, 6); the model runs with a
\* smaller party
MaxParty == 2

Locations == {"PALLET TOWN", "VIRIDIAN CITY"}

\* values of badgeCount, money and playerX in the model
StatValues == {0, 1}

\* { current, max } of one party slot
HpPairs == {[current |-> 1, max |-> 1], [current |-> 0, max |-> 1], [current |-> 1, max |-> 2]}

\* the GameState objects getGameState can return (the fields the sampler
\* reads, and playerX for the fields it does not read); partyHp has
\* partyCount entries
GameStates ==
    UNION {[location : Locations, badgeCount : StatValues, money : StatValues,
            playerX : StatValues, partyCount : {n}, partyHp : [1..n -> HpPairs]]
           : n \in 0..MaxParty}

\* variant: only the current HP of a slot is compared
hpDiffers_current(cached, hp) == cached.current /= hp.current

\* cached.current !== hp.current || cached.max !== hp.max
hpDiffers(cached, hp) == cached.current /= hp.current \/ cached.max /= hp.max

\* gameState.partyHp.some((hp, i) => { const cached = cachedGameState?.partyHp?.[i];
\*                                     return !cached || ... })
hpChanged(cached, gameState) ==
    \E i \in 1..Len(gameState.partyHp) :
        \/ i > Len(cached.partyHp)
        \/ hpDiffers(cached.partyHp[i], gameState.partyHp[i])

\* stateChanged of the sampler; cache is <<>> (null) or <<snapshot>>
stateChanged(cache, gameState) ==
    \/ cache = <<>>
    \/ cache[1].location /= gameState.location
    \/ cache[1].badgeCount /= gameState.badgeCount
    \/ cache[1].partyCount /= gameState.partyCount
    \/ cache[1].money /= gameState.money
    \/ hpChanged(cache[1], gameState)

\* io.emit("gameState", gameState)
gameStateEvent(gameState) == [type |-> "gameState", payload |-> gameState]

\* the callback of the sampler timer; sample is what getGameState returns
\* (<<>>: null)
sampleGameState(sample) ==
    /\ sampleTick' = ~sampleTick
    /\ lastSample' = sample
    /\ IF sample /= <<>> /\ stateChanged(cachedGameState, sample[1])
       THEN /\ cachedGameState' = sample
            /\ sampleBroadcast' = TRUE
            /\ ioReceived' = ioDeliver(ioSockets, ioReceived, <<gameStateEvent(sample[1])>>)
       ELSE /\ cachedGameState' = cachedGameState
            /\ sampleBroadcast' = FALSE
            /\ ioReceived' = ioReceived
    /\ UNCHANGED outsideGame

\* the sampler timer fires
GameStateSample ==
    \E sample \in {<<>>} \cup {<<g>> : g \in GameStates} : sampleGameState(sample)

InitGame == AggInit /\ DetIdle /\ IdxInit /\ SideInit

NextGame == GameStateSample

SpecGame == InitGame /\ [][NextGame]_vars

(***************************************************************************)
(* index.ts: the event channel (Socket.io).  A socket that connects is     *)
(* greeted by the connection handler; from then on every io.emit reaches   *)
(* it.                                                                     *)
(***************************************************************************)

\* variant: gameState is sent whether or not a game state is cached
cachedStateEvents_always(cache) == <<[type |-> "gameState", payload |-> cache]>>

\* if (cachedGameState) socket.emit("gameState", cachedGameState)
cachedStateEvents(cache) ==
    IF cache /= <<>> THEN <<gameStateEvent(cache[1])>> ELSE <<>>

\* the emits of the io connection handler: screenInfo, recentHistory with
\* both circular buffers, gameState when one is cached
onIoConnection(votesBuffer, actionsBuffer, cache) ==
    <<[type |-> "screenInfo", payload |-> <<>>],
      [type |-> "recentHistory",
       payload |-> [votes |-> votesBuffer, actions |-> actionsBuffer]]>>
    \o cachedStateEvents(cache)

\* io.on("connection"): a socket has joined the event channel
IoConnect ==
    \E socket \in IoConns \ ioSockets :
        /\ ioSockets' = ioSockets \cup {socket}
        /\ ioReceived' = [ioReceived EXCEPT
                             ![socket] = @ \o onIoConnection(recentVotes, recentActions,
                                                             cachedGameState)]
        /\ UNCHANGED <<aggVars, detVars, head, chainLogs, seenEvents, recentVotes,
                       recentActions, lastPolledBlock, lastWebSocketBlock, polls, accepted,
                       ioLog, sideVars>>

\* the game states the sampler reads in the event-channel model
IoGameStates ==
    {g \in GameStates : g.partyCount = 0 /\ g.badgeCount = 0 /\ g.money = 0 /\ g.playerX = 0}

\* events sent to a socket up to which the sampler runs in the
\* event-channel model
MaxIoEvents == 6

\* the sampler timer fires (event-channel model)
IoSample ==
    /\ \A c \in ioSockets : Len(ioReceived[c]) < MaxIoEvents
    /\ \E sample \in {<<g>> : g \in IoGameStates} : sampleGameState(sample)

\* the VoteCast logs the subscription delivers in the event-channel model:
\* one in window 0 and one in window 1
IoLogs ==
    {[blockNumber |-> b, txHash |-> 1, logIndex |-> 0, player |-> player, action |-> 4]
       : b \in {0, windowSize}, player \in Players}

\* the headers the subscription delivers in the event-channel model: the
\* first blocks of windows 1 and 2
IoHeads == {windowSize, 2 * windowSize}

\* a VoteCast log arrives (event-channel model)
IoLog == \E log \in IoLogs : onLog(log)

\* a block header arrives (event-channel model)
IoNewHead == \E blockNumber \in IoHeads : onNewHead(blockNumber)

InitIo == AggInit /\ DetIdle /\ IdxInit /\ SideInit

NextIo == IoConnect \/ IoLog \/ IoNewHead \/ IoSample

SpecIo == InitIo /\ [][NextIo]_vars

(***************************************************************************)
(* index.ts: connectWebSocket.  One socket to the RPC node carries both    *)
(* subscriptions; its close handler schedules connectWebSocket again.      *)
(* The node answers the request with id 1 (monadNewHeads) and the request  *)
(* with id 2 (monadLogs) by a subscription id and labels every             *)
(* notification with the id of its subscription.  The node of the model    *)
(* hands out the same two ids on every connection, and its notifications   *)
(* may overtake the confirmations.                                         *)
(***************************************************************************)

\* setTimeout(connectWebSocket, 5000)
RECONNECT_DELAY == 5000

\* the subscription id the node gives to the request with this id
nodeSubId(id) == IF id = 1 THEN "0xa" ELSE "0xb"

\* ws.readyState is CONNECTING or OPEN (an errored socket is still to emit close)
liveSockets == {k \in Sockets : upSockets[k] \in {"CONNECTING", "OPEN", "ERRORED"}}

\* setTimeout(callback, delay) on the event loop's timers; handle is the new timer
setTimeout(timers, handle, delay) == timers \cup {[handle |-> handle, delay |-> delay]}

\* if (wsReconnectTimeout) clearTimeout(wsReconnectTimeout): a pending timer is
\* removed, a handle whose timer has fired removes nothing
clearTimeout(timers, timeout) ==
    IF timeout = <<>> THEN timers ELSE {t \in timers : t.handle /= timeout[1]}

\* the handle setTimeout returns: timers are numbered in the order of creation
nextHandle(timeout) == IF timeout = <<>> THEN 1 ELSE timeout[1] + 1

\* connectWebSocket(): ws = new WebSocket(config.rpcUrl), handlers registered
connectWebSocket ==
    /\ rpcWs < MaxSockets
    /\ rpcWs' = rpcWs + 1
    /\ upSockets' = [upSockets EXCEPT ![rpcWs + 1] = "CONNECTING"]

\* main: the call connectWebSocket() that starts the subscription path
WsStart ==
    /\ rpcWs = 0
    /\ connectWebSocket
    /\ UNCHANGED <<wsTimers, wsReconnectTimeout, newHeadsSubId, logsSubId, wsConfirmed,
                   lastRouted>>
    /\ UNCHANGED <<coreVars, frameVars, buttonVars, gameVars, delegVars, voteVars, viewVars,
                   polledOnce, shutVars, relayVars>>

\* ws.on("open"): the two eth_subscribe requests (ids 1 and 2) are sent
UpOpen ==
    \E k \in Sockets :
        /\ upSockets[k] = "CONNECTING"
        /\ upSockets' = [upSockets EXCEPT ![k] = "OPEN"]
        /\ UNCHANGED <<rpcWs, wsTimers, wsReconnectTimeout, newHeadsSubId, logsSubId,
                       wsConfirmed, lastRouted>>
        /\ UNCHANGED <<coreVars, frameVars, buttonVars, gameVars, delegVars, voteVars,
                       viewVars, polledOnce, shutVars, relayVars>>

\* ws.on("message"), msg.id === 1 / msg.id === 2 with a result: the node confirms
\* a subscription of socket k
UpConfirm ==
    \E k \in Sockets, id \in {1, 2} :
        /\ upSockets[k] = "OPEN"
        /\ id \notin wsConfirmed[k]
        /\ newHeadsSubId' = IF id = 1 THEN <<nodeSubId(id)>> ELSE newHeadsSubId
        /\ logsSubId' = IF id = 1 THEN logsSubId ELSE <<nodeSubId(id)>>
        /\ wsConfirmed' = [wsConfirmed EXCEPT ![k] = @ \cup {id}]
        /\ UNCHANGED <<upSockets, rpcWs, wsTimers, wsReconnectTimeout, lastRouted>>
        /\ UNCHANGED <<coreVars, frameVars, buttonVars, gameVars, delegVars, voteVars,
                       viewVars, polledOnce, shutVars, relayVars>>

\* the history of a routed notification
routedOn(k, id) == [socket |-> k, id |-> id, flip |-> ~lastRouted.flip]

\* ws.on("message"), msg.method === "eth_subscription": socket k delivers a
\* notification labelled subId; payload is a block number (monadNewHeads) or
\* a VoteCast log (monadLogs)
onNotification(k, subId, payload) ==
    /\ upSockets[k] = "OPEN"
    /\ IF <<subId>> = newHeadsSubId
       THEN /\ payload \in IoHeads
            /\ newHeadsBranch(payload)
            /\ lastRouted' = routedOn(k, 1)
       ELSE IF <<subId>> = logsSubId
       THEN /\ payload \in IoLogs
            /\ logsBranch(payload)
            /\ lastRouted' = routedOn(k, 2)
       ELSE UNCHANGED <<coreVars, lastRouted>>
    /\ UNCHANGED <<upSockets, rpcWs, wsTimers, wsReconnectTimeout, newHeadsSubId, logsSubId,
                   wsConfirmed>>
    /\ UNCHANGED <<frameVars, buttonVars, gameVars, delegVars, voteVars, viewVars, polledOnce,
                       shutVars, relayVars>>

\* the node sends a notification of one of the two subscriptions
UpNotification ==
    \E k \in Sockets, id \in {1, 2} :
        \E payload \in IF id = 1 THEN IoHeads ELSE IoLogs :
            onNotification(k, nodeSubId(id), payload)

\* ws.on("error"): the error is logged; the socket goes on to emit close
UpError ==
    \E k \in Sockets :
        /\ upSockets[k] \in {"CONNECTING", "OPEN"}
        /\ upSockets' = [upSockets EXCEPT ![k] = "ERRORED"]
        /\ UNCHANGED <<rpcWs, wsTimers, wsReconnectTimeout, newHeadsSubId, logsSubId,
                       wsConfirmed, lastRouted>>
        /\ UNCHANGED <<coreVars, frameVars, buttonVars, gameVars, delegVars, voteVars,
                       viewVars, polledOnce, shutVars, relayVars>>

\* close handler: newHeadsSubId = null; logsSubId = null
subIdAfterClose_kept(subId) == subId

subIdAfterClose(subId) == <<>>

\* ws.on("close"): the socket emits close once, after a failed connect, an
\* error or the loss of the connection
UpClose ==
    \E k \in Sockets :
        /\ upSockets[k] \in {"CONNECTING", "OPEN", "ERRORED"}
        /\ upSockets' = [upSockets EXCEPT ![k] = "CLOSED"]
        /\ newHeadsSubId' = subIdAfterClose(newHeadsSubId)
        /\ logsSubId' = subIdAfterClose(logsSubId)
        /\ wsTimers' = setTimeout(clearTimeout(wsTimers, wsReconnectTimeout),
                                  nextHandle(wsReconnectTimeout), RECONNECT_DELAY)
        /\ wsReconnectTimeout' = <<nextHandle(wsReconnectTimeout)>>
        /\ UNCHANGED <<rpcWs, wsConfirmed, lastRouted>>
        /\ UNCHANGED <<coreVars, frameVars, buttonVars, gameVars, delegVars, voteVars,
                       viewVars, polledOnce, shutVars, relayVars>>

\* a reconnect timer fires: the event loop drops it and calls connectWebSocket
ReconnectFires ==
    \E t \in wsTimers :
        /\ wsTimers' = wsTimers \ {t}
        /\ connectWebSocket
        /\ UNCHANGED <<wsReconnectTimeout, newHeadsSubId, logsSubId, wsConfirmed, lastRouted>>
        /\ UNCHANGED <<coreVars, frameVars, buttonVars, gameVars, delegVars, voteVars,
                       viewVars, polledOnce, shutVars, relayVars>>

InitWs == AggInit /\ DetIdle /\ IdxInit /\ SideInit

NextWs == WsStart \/ UpOpen \/ UpConfirm \/ UpNotification \/ UpError \/ UpClose
              \/ ReconnectFires

SpecWs == InitWs /\ [][NextWs]_vars

(***************************************************************************)
(* index.ts: the shutdown handler of SIGINT and SIGTERM, with the timers   *)
(* and socket events it may follow.  A handler runs to its end before the  *)
(* event loop starts another callback; process.exit ends the event loop.   *)
(***************************************************************************)

\* the process has not exited
Alive == exitCode = <<>>

\* setInterval(() => emulator.saveState(), AUTO_SAVE_INTERVAL)
AutoSave ==
    /\ savedFrame' = frameCount
    /\ UNCHANGED <<isRunning, listening, exitCode, shutdownLog>>
    /\ UNCHANGED <<coreVars, frameVars, buttonVars, gameVars, delegVars, voteVars, viewVars,
                   polledOnce, wsVars, relayVars>>

\* ws.close() on a socket: a socket that is not closed yet starts closing
wsClose(sockets, k) ==
    IF sockets[k] \in {"CONNECTING", "OPEN", "ERRORED"}
    THEN [sockets EXCEPT ![k] = "CLOSING"]
    ELSE sockets

\* variant: the emulator is stopped before the save is written
shutdownCalls_stopFirst(hasWs, hasTimeout) ==
    <<"emulator.stop", "emulator.saveState">>
        \o (IF hasWs THEN <<"ws.close">> ELSE <<>>)
        \o (IF hasTimeout THEN <<"clearTimeout">> ELSE <<>>)
        \o <<"httpServer.close", "process.exit">>

\* the calls of shutdown, in the order of its statements
shutdownCalls(hasWs, hasTimeout) ==
    <<"emulator.saveState", "emulator.stop">>
        \o (IF hasWs THEN <<"ws.close">> ELSE <<>>)
        \o (IF hasTimeout THEN <<"clearTimeout">> ELSE <<>>)
        \o <<"httpServer.close", "process.exit">>

\* shutdown(signal): the handlers are registered at the end of main, after
\* connectWebSocket() has been called
Shutdown ==
    \E signal \in {"SIGINT", "SIGTERM"} :
        /\ rpcWs > 0
        /\ savedFrame' = frameCount
        /\ isRunning' = FALSE
        /\ upSockets' = IF rpcWs > 0 THEN wsClose(upSockets, rpcWs) ELSE upSockets
        /\ wsTimers' = clearTimeout(wsTimers, wsReconnectTimeout)
        /\ listening' = FALSE
        /\ exitCode' = <<0>>
        /\ shutdownLog' = shutdownLog \o shutdownCalls(rpcWs > 0, wsReconnectTimeout /= <<>>)
        /\ UNCHANGED <<rpcWs, wsReconnectTimeout, newHeadsSubId, logsSubId, wsConfirmed,
                       lastRouted>>
        /\ UNCHANGED <<coreVars, frameVars, buttonVars, gameVars, delegVars, voteVars,
                       viewVars, polledOnce, relayVars>>

InitShut == AggInit /\ DetIdle /\ IdxInit /\ SideInit

NextShut ==
    \/ Alive /\ WsStart
    \/ Alive /\ UpOpen
    \/ Alive /\ UpError
    \/ Alive /\ UpClose
    \/ Alive /\ ReconnectFires
    \/ Alive /\ FrameTick
    \/ Alive /\ AutoSave
    \/ Alive /\ Shutdown

SpecShut == InitShut /\ [][NextShut]_vars

(***************************************************************************)
(* VoteButtons.tsx: vote() in relay mode.  The client keeps the user's     *)
(* delegation status and next execute-nonce in relayCache, signs the       *)
(* nonce, and posts the signed vote to the relay.  The relay's code is not *)
(* part of the sources; it is modelled from its description: it reports    *)
(* the on-chain delegation status and execute-nonce (0 for an account that *)
(* is not delegated), and submits execute, which the delegated account     *)
(* accepts only when the nonce signed is its execute-nonce.  An error      *)
(* message is modelled by the set of the words the client looks for.       *)
(***************************************************************************)

\* GET /relay/delegated/:address
relayDelegated(u) == u \in delegatedUsers

\* GET /relay/nonce/:address
relayNonce(u) == IF u \in delegatedUsers THEN execNonce[u] ELSE 0

\* if (relayCache.current.address !== userAddress) relayCache.current = {...}
cacheFor(cache, userAddress) ==
    IF cache.address /= <<userAddress>>
    THEN [address |-> <<userAddress>>, isDelegated |-> <<>>, nonce |-> <<>>]
    ELSE cache

\* steps 1 and 2 (fetch succeeded): the delegation status and the nonce are
\* taken from the cache or fetched and cached
cacheAfterFetch(cache, userAddress) ==
    [cache EXCEPT
       !.isDelegated = IF @ = <<>> THEN <<relayDelegated(userAddress)>> ELSE @,
       !.nonce       = IF @ = <<>> THEN <<relayNonce(userAddress)>> ELSE @]

\* the catch block: the cached nonce is cleared on these words
clearsNonce(errMsg) == errMsg \cap {"InvalidSignature", "nonce", "reverted"} /= {}

\* vote(action) in relay mode up to the POST /relay request; fetchOk says
\* whether GET /relay/nonce succeeds when it is needed
RelaySend ==
    \E userAddress \in RelayUsers, fetchOk \in BOOLEAN :
        /\ relayRequest = <<>>
        /\ LET c0 == cacheFor(relayCache, userAddress)
               c1 == cacheAfterFetch(c0, userAddress)
           IN  IF c0.nonce = <<>> /\ ~fetchOk
               THEN \* throw new Error("Failed to get nonce"), caught below
                    /\ relayCache' = [c0 EXCEPT
                                        !.isDelegated = c1.isDelegated,
                                        !.nonce = IF clearsNonce({"nonce"}) THEN <<>> ELSE @]
                    /\ relayLast' = [address |-> userAddress, nonce |-> 0,
                                     authorization |-> FALSE,
                                     isDelegated |-> c1.isDelegated[1],
                                     fetched |-> FALSE, outcome |-> "noNonce"]
                    /\ UNCHANGED relayRequest
               ELSE /\ c1.nonce[1] < MaxRelayNonce
                    /\ relayCache' = c1
                    /\ relayRequest' =
                          <<[address |-> userAddress, nonce |-> c1.nonce[1],
                             authorization |-> ~c1.isDelegated[1],
                             isDelegated |-> c1.isDelegated[1],
                             fetched |-> c0.nonce = <<>>]>>
                    /\ UNCHANGED relayLast
        /\ UNCHANGED <<delegatedUsers, execNonce>>
        /\ UNCHANGED <<coreVars, frameVars, buttonVars, gameVars, delegVars, voteVars,
                       viewVars, polledOnce, wsVars, shutVars>>

\* POST /relay as described: the words of the error message, or {} when the
\* transaction was submitted and executed
relayErrors(req) ==
    {{"request limit"}, {"insufficient funds"}}
       \cup (IF req.address \notin delegatedUsers /\ ~req.authorization
             THEN {{"authorization required"}}
             ELSE IF req.nonce /= execNonce[req.address]
             THEN {{"InvalidSignature"}, {"reverted", "nonce"}}
             ELSE {{}})

\* variant: the cached nonce is left as it is after a success
nonceAfterSuccess_same(nonce) == nonce

\* relayCache.current.nonce = nonce + 1
nonceAfterSuccess(nonce) == nonce + 1

\* the response of POST /relay arrives: the rest of vote(action)
RelayResponse ==
    /\ relayRequest /= <<>>
    /\ \E errMsg \in relayErrors(relayRequest[1]) :
        LET req == relayRequest[1]
        IN  /\ relayRequest' = <<>>
            /\ IF errMsg = {}
               THEN /\ delegatedUsers' = delegatedUsers \cup {req.address}
                    /\ execNonce' = [execNonce EXCEPT ![req.address] = @ + 1]
                    /\ relayCache' =
                          [relayCache EXCEPT
                             !.nonce = <<nonceAfterSuccess(req.nonce)>>,
                             !.isDelegated = IF ~req.isDelegated THEN <<TRUE>> ELSE @]
                    /\ relayLast' = req @@ [outcome |-> "ok"]
               ELSE /\ relayCache' =
                          [relayCache EXCEPT
                             !.nonce = IF clearsNonce(errMsg) THEN <<>> ELSE @]
                    /\ relayLast' = req @@
                          [outcome |-> IF clearsNonce(errMsg) THEN "staleNonce" ELSE "failed"]
                    /\ UNCHANGED <<delegatedUsers, execNonce>>
            /\ UNCHANGED <<coreVars, frameVars, buttonVars, gameVars, delegVars, voteVars,
                           viewVars, polledOnce, wsVars, shutVars>>

\* the account executes a vote signed in another session of its user
OtherSession ==
    \E u \in delegatedUsers :
        /\ execNonce[u] < MaxRelayNonce
        /\ execNonce' = [execNonce EXCEPT ![u] = @ + 1]
        /\ UNCHANGED <<relayCache, relayRequest, relayLast, delegatedUsers>>
        /\ UNCHANGED <<coreVars, frameVars, buttonVars, gameVars, delegVars, voteVars,
                       viewVars, polledOnce, wsVars, shutVars>>

InitRelay == AggInit /\ DetIdle /\ IdxInit /\ SideInit

NextRelay == RelaySend \/ RelayResponse \/ OtherSession

SpecRelay == InitRelay /\ [][NextRelay]_vars

(***************************************************************************)
(* index.ts and emulator.ts: the window-result callback ends with          *)
(* emulator.pressButton(result.winningAction, 5), and the frame timer      *)
(* injects the pending button.  The handlers below are the polling and     *)
(* subscription handlers with that call included.                          *)
(***************************************************************************)

\* emulator.pressButton(result.winningAction, 5): hold for 5 frames
PRESS_FRAMES == 5

\* the heads at which the chain is observed in the button model: the last
\* blocks of windows 0, 1 and 2
PressHeads == {windowSize - 1, 2 * windowSize - 1, 3 * windowSize - 1}

\* the VoteCast logs of that chain: a vote for A in window 0 and a vote for
\* START in window 1
PressVotes ==
    {[blockNumber |-> windowSize - 1, txHash |-> 1, logIndex |-> 0, player |-> "0xa1",
      action |-> 4],
     [blockNumber |-> windowSize, txHash |-> 1, logIndex |-> 0, player |-> "0xa1",
      action |-> 6]}

\* the chain moves on to a later head; the blocks in between hold their logs
PressChain ==
    /\ \E b \in PressHeads :
          /\ b > head
          /\ head' = b
          /\ chainLogs' = chainLogs \cup {l \in PressVotes : l.blockNumber <= b}
    /\ UNCHANGED <<aggVars, detVars, seenEvents, recentVotes, recentActions,
                   lastPolledBlock, lastWebSocketBlock, polls, accepted, ioLog,
                   ioSockets, ioReceived, sideVars>>

\* the VoteAggregator callback's last statement, for each result in turn
RECURSIVE pressResults(_, _)
pressResults(b, newResults) ==
    IF newResults = <<>> THEN b
    ELSE pressResults(pressButton(b, Head(newResults).winningAction, PRESS_FRAMES),
                      Tail(newResults))

\* the results the aggregator emits in a step
newResults == SubSeq(results'[1], Len(results[1]) + 1, Len(results'[1]))

\* the emulator's part of a handler that may run the VoteAggregator callback
PressEmitted ==
    /\ SetButton(pressResults(buttonOf, newResults))
    /\ UNCHANGED <<frameVars, gameVars, delegVars, voteVars, viewVars, polledOnce, wsVars,
                   shutVars, relayVars>>

\* getBlockNumber() resolves with the chain's head
PressBlockNumber == blockNumberBranch(head) /\ PressEmitted

\* queryFilter() resolves
PressPollLogs == \E p \in BagToSet(polls) : onQueryResult(p) /\ PressEmitted

\* a block header arrives on the subscription
PressNewHead == \E blockNumber \in {b \in PressHeads : b <= head} :
                    newHeadsBranch(blockNumber) /\ PressEmitted

\* a VoteCast log arrives on the subscription
PressLog == \E log \in chainLogs : logsBranch(log) /\ PressEmitted

InitPress == AggInit /\ DetIdle /\ IdxInit /\ SideInit

NextPress ==
    \/ PressChain
    \/ PollStart
    \/ PressBlockNumber
    \/ PressPollLogs
    \/ PressNewHead
    \/ PressLog
    \/ FrameTick

SpecPress == InitPress /\ [][NextPress]_vars

(***************************************************************************)
(* contracts/src/SimpleDelegation.sol: execute                             *)
(***************************************************************************)

\* a signature, by what its signer signed: the nonce and the deadline of
\* the message (owner, to, value, data, nonce, deadline, chainid)
Signatures == [signer : Owners, nonce : 0..(MaxNonce + 1), deadline : Times]

\* what the target call does: return, revert, or call execute of the same
\* account again with the arguments inner[1]
PlainTargets == {[kind |-> "ok", inner |-> <<>>], [kind |-> "revert", inner |-> <<>>]}

ExecCallsTo(targets) == [deadline : Times, signature : Signatures, to : targets]

ReentrantTargets == {[kind |-> "execute", inner |-> <<c>>] : c \in ExecCallsTo(PlainTargets)}

\* the arguments of an execute call
ExecCalls == ExecCallsTo(PlainTargets \cup ReentrantTargets)

\* ethSignedMessageHash.recover(signature): the signer when the signature is
\* over this very message, some other address when it is not
recover(nonce, call) ==
    IF call.signature.nonce = nonce /\ call.signature.deadline = call.deadline
    THEN call.signature.signer
    ELSE "0xdead"

\* variant: the nonce written before the target call survives the revert
nonceAfterRevert_kept(before, stored) == stored

\* a revert undoes nonces[owner] = nonce + 1
nonceAfterRevert(before, stored) == before

\* execute(to, value, data, deadline, signature) on the account owner whose
\* nonce is nonce, in a block with this timestamp: whether it returned, the
\* nonce it leaves, and the nonces consumed by the calls that returned
RECURSIVE execute(_, _, _, _)
execute(owner, nonce, timestamp, call) ==
    LET reverted == [ok |-> FALSE, nonce |-> nonce, consumed |-> <<>>]
    IN  IF ~(timestamp <= call.deadline) THEN reverted
        ELSE IF recover(nonce, call) /= owner THEN reverted
        ELSE LET stored == nonce + 1
                 target == IF call.to.kind = "ok"
                           THEN [ok |-> TRUE, nonce |-> stored, consumed |-> <<>>]
                           ELSE IF call.to.kind = "revert"
                           THEN [ok |-> FALSE, nonce |-> stored, consumed |-> <<>>]
                           ELSE execute(owner, stored, timestamp, call.to.inner[1])
             IN  IF target.ok
                 THEN [ok |-> TRUE, nonce |-> target.nonce,
                       consumed |-> <<nonce>> \o target.consumed]
                 ELSE [reverted EXCEPT !.nonce = nonceAfterRevert(nonce, stored)]

\* a transaction calls execute on a delegated account
Execute ==
    \E owner \in Owners, call \in ExecCalls :
        /\ nonces[owner] <= MaxNonce
        /\ LET outcome == execute(owner, nonces[owner], now, call)
           IN  /\ nonces' = [nonces EXCEPT ![owner] = outcome.nonce]
               /\ lastExec' = [owner |-> owner, ok |-> outcome.ok,
                               consumed |-> outcome.consumed]
        /\ UNCHANGED <<now, outsideDeleg>>

\* a block with a later timestamp
TimePasses ==
    /\ now < MaxTime
    /\ now' = now + 1
    /\ UNCHANGED <<nonces, lastExec, outsideDeleg>>

InitDeleg == AggInit /\ DetIdle /\ IdxInit /\ SideInit

NextDeleg == Execute \/ TimePasses

SpecDeleg == InitDeleg /\ [][NextDeleg]_vars

(***************************************************************************)
(* contracts/src/MonadPlaysPokemon.sol: vote                               *)
(***************************************************************************)

\* vote transactions in a run of the model
MaxTx == 2

\* the uint8 a caller can put in the calldata: the 8 members of Action and
\* one value outside the enum
RawActions == 0..Len(Actions)

\* event VoteCast(address indexed player, Action action)
VoteCast(player, action) == [event |-> "VoteCast", player |-> player, action |-> action]

\* variant: the event is emitted twice
voteEvents_twice(sender, action) == <<VoteCast(sender, action), VoteCast(sender, action)>>

\* emit VoteCast(msg.sender, _action)
voteEvents(sender, action) == <<VoteCast(sender, action)>>

\* vote(Action _action) called by sender: the ABI decoder reverts on a value
\* outside the enum; the body emits and writes nothing
vote(storage, sender, action) ==
    IF action \in 0..(Len(Actions) - 1)
    THEN [ok |-> TRUE, events |-> voteEvents(sender, action), storage |-> storage]
    ELSE [ok |-> FALSE, events |-> <<>>, storage |-> storage]

\* a transaction calls vote
Vote ==
    \E sender \in Owners, action \in RawActions :
        /\ Len(voteCastLog) < MaxTx
        /\ LET outcome == vote(mppStorage, sender, action)
           IN  /\ voteCastLog' = voteCastLog \o outcome.events
               /\ mppStorage' = outcome.storage
               /\ lastVoteCall' = [sender |-> sender, action |-> action, ok |-> outcome.ok]
        /\ UNCHANGED outsideVote

InitVote == AggInit /\ DetIdle /\ IdxInit /\ SideInit

NextVote == Vote

SpecVote == InitVote /\ [][NextVote]_vars

(***************************************************************************)
(* index.ts: the frame spectators (WebSocket server on /stream)            *)
(***************************************************************************)

\* client.readyState === WebSocket.OPEN
isOpen(states, c) == states[c] = "OPEN"

\* variant: only the open connections are counted
viewerCountOf_open(clients, states) == Cardinality({c \in clients : isOpen(states, c)})

\* const count = frameClients.size
viewerCountOf(clients, states) == Cardinality(clients)

\* broadcastViewerCount(): the messages each spectator has been sent
broadcastViewerCount(clients, states, sent) ==
    LET msg == [type |-> "viewerCount", count |-> viewerCountOf(clients, states)]
    IN  [c \in Conns |-> IF c \in clients /\ isOpen(states, c)
                         THEN Append(sent[c], msg) ELSE sent[c]]

\* ws.send(JSON.stringify({ type: "screenInfo", ... }))
sendScreenInfo(sent, ws) ==
    [sent EXCEPT ![ws] = Append(@, [type |-> "screenInfo", count |-> 0])]

\* variant: the count is broadcast before screenInfo is sent
greet_countFirst(clients, states, sent, ws) ==
    sendScreenInfo(broadcastViewerCount(clients, states, sent), ws)

\* the sends of the connection handler: screenInfo to the new spectator,
\* then broadcastViewerCount()
greet(clients, states, sent, ws) ==
    broadcastViewerCount(clients, states, sendScreenInfo(sent, ws))

\* wss.on("connection"): register, send screenInfo, broadcast the count
WsConnect ==
    \E c \in Conns :
        /\ connState[c] = "none"
        /\ connState' = [connState EXCEPT ![c] = "OPEN"]
        /\ frameClients' = frameClients \cup {c}
        /\ received' = greet(frameClients', connState', received, c)
        /\ lastEvent' = [conn |-> c, type |-> "connection"]
        /\ UNCHANGED <<framesBroadcast, outsideView>>

\* runs of the frame callback in a run of the model
MaxBroadcasts == 2

\* for (const client of frameClients) if OPEN client.send(frameData)
broadcastFrame(clients, states, sent) ==
    [c \in Conns |-> IF c \in clients /\ isOpen(states, c)
                     THEN Append(sent[c], [type |-> "frame", count |-> 0]) ELSE sent[c]]

\* the frame callback set by emulator.setFrameCallback runs with a
\* compressed frame
FrameBroadcast ==
    /\ framesBroadcast < MaxBroadcasts
    /\ framesBroadcast' = framesBroadcast + 1
    /\ received' = broadcastFrame(frameClients, connState, received)
    /\ UNCHANGED <<connState, frameClients, lastEvent, outsideView>>

\* the closing handshake of a connection starts: readyState becomes CLOSING
\* and no event is emitted yet
PeerClosing ==
    \E c \in Conns :
        /\ connState[c] = "OPEN"
        /\ connState' = [connState EXCEPT ![c] = "CLOSING"]
        /\ UNCHANGED <<frameClients, received, lastEvent, framesBroadcast, outsideView>>

\* ws.on("error"): the socket has left OPEN when the event is emitted
WsError ==
    \E c \in Conns :
        /\ connState[c] \in {"OPEN", "CLOSING"}
        /\ connState' = [connState EXCEPT ![c] = "ERRORED"]
        /\ frameClients' = frameClients \ {c}
        /\ received' = broadcastViewerCount(frameClients', connState', received)
        /\ lastEvent' = [conn |-> c, type |-> "error"]
        /\ UNCHANGED <<framesBroadcast, outsideView>>

\* ws.on("close"): readyState is CLOSED when the event is emitted
WsClose ==
    \E c \in Conns :
        /\ connState[c] \in {"OPEN", "CLOSING", "ERRORED"}
        /\ connState' = [connState EXCEPT ![c] = "CLOSED"]
        /\ frameClients' = frameClients \ {c}
        /\ received' = broadcastViewerCount(frameClients', connState', received)
        /\ lastEvent' = [conn |-> c, type |-> "close"]
        /\ UNCHANGED <<framesBroadcast, outsideView>>

InitView == AggInit /\ DetIdle /\ IdxInit /\ SideInit

NextView == WsConnect \/ PeerClosing \/ WsError \/ WsClose \/ FrameBroadcast

SpecView == InitView /\ [][NextView]_vars

(***************************************************************************)
(* Properties of the aggregator (SpecAgg)                                  *)
(***************************************************************************)
ResultIdx(r) == 1..Len(results[r])

\* sum of the eight per-action tallies of a result
RECURSIVE sumFrom(_, _)
sumFrom(voteCounts, i) ==
    IF i > Len(Actions) THEN 0 ELSE voteCounts[Actions[i]] + sumFrom(voteCounts, i + 1)

sumTallies(voteCounts) == sumFrom(voteCounts, 1)

maxTally(voteCounts) ==
    CHOOSE m \in {voteCounts[a] : a \in ActionNames} :
        \A a \in ActionNames : voteCounts[a] <= m

\* the actions holding the largest tally, in canonical enum order
RECURSIVE tiedFrom(_, _)
tiedFrom(voteCounts, i) ==
    IF i > Len(Actions) THEN <<>>
    ELSE IF voteCounts[Actions[i]] = maxTally(voteCounts)
         THEN <<Actions[i]>> \o tiedFrom(voteCounts, i + 1)
         ELSE tiedFrom(voteCounts, i + 1)

tiedActions(voteCounts) == tiedFrom(voteCounts, 1)

\* bitwise exclusive or of two naturals
RECURSIVE XOR(_, _)
XOR(x, y) ==
    IF x = 0 THEN y
    ELSE IF y = 0 THEN x
    ELSE (((x % 2) + (y % 2)) % 2) + 2 * XOR(x \div 2, y \div 2)

\* C1: onWindowComplete is invoked at most once per windowId
C1_SingleShot ==
    \A i, j \in ResultIdx(1) :
        i /= j => results[1][i].windowId /= results[1][j].windowId

\* C1 witness: a window that already has a result holds a vote again
C1_Witness ==
    \E i \in ResultIdx(1) : MapHas(votes[1], results[1][i].windowId)

\* C2: the windowIds of the emitted results are strictly increasing
C2_Monotone ==
    \A i, j \in ResultIdx(1) :
        i < j => results[1][i].windowId < results[1][j].windowId

\* C2 witness: two results, one emitted by addVote and one by onBlock
C2_Witness ==
    /\ Len(results[1]) >= 2
    /\ \E i, j \in ResultIdx(1) : causes[1][i].op = "addVote" /\ causes[1][j].op = "onBlock"

\* C3 as stated: a result for window k is emitted only after a tick (onBlock)
\* with block >= (k+1)*windowSize has been observed
C3_TickBeforeFinalize ==
    \A i \in ResultIdx(1) : causes[1][i].maxTick >= results[1][i].windowId + 1

\* C3 amended: a result for window k is emitted only by an addVote or onBlock
\* call whose block is >= (k+1)*windowSize, or by forceFinalize called while
\* k is the current window
C3_InputBeforeFinalize ==
    \A i \in ResultIdx(1) :
        LET c == causes[1][i]
            k == results[1][i].windowId
        IN  \/ c.op \in {"addVote", "onBlock"} /\ c.block >= (k + 1) * windowSize
            \/ c.op = "forceFinalize" /\ c.cwBefore = k

\* C3 witness: a window finalized by an addVote and one by forceFinalize,
\* neither preceded by a tick past the window
C3_Witness ==
    /\ \E i \in ResultIdx(1) :
           causes[1][i].op = "addVote" /\ causes[1][i].maxTick <= results[1][i].windowId
    /\ \E i \in ResultIdx(1) : causes[1][i].op = "forceFinalize"

\* C4: for every emitted result, totalVotes is the number of unique votes
\* accepted by processVoteEvent whose block lies in [startBlock, endBlock]
C4_TotalCountsAcceptedVotes ==
    \A i \in ResultIdx(1) :
        LET r == results[1][i]
        IN  r.totalVotes =
              Cardinality({getEventKey(l.blockNumber, l.txHash, l.logIndex) :
                             l \in {m \in accepted : /\ r.startBlock <= m.blockNumber
                                                     /\ m.blockNumber <= r.endBlock}})

\* C5: for every emitted result the eight tallies sum to totalVotes
C5_TalliesSumToTotal ==
    \A i \in ResultIdx(1) : sumTallies(results[1][i].votes) = results[1][i].totalVotes

\* C6: the winner of every emitted result has a tally of at least 1 that is
\* at least the tally of every other action
C6_WinnerHasLargestTally ==
    \A i \in ResultIdx(1) :
        LET r == results[1][i]
        IN  /\ r.votes[r.winningAction] >= 1
            /\ \A a \in ActionNames : r.votes[r.winningAction] >= r.votes[a]

\* C7: when several actions tie for the largest tally and the finalizing tick
\* carried a hash, the winner is the tied action at index
\* (hash XOR windowId) mod tieCount in canonical order
C7_TieBrokenByHash ==
    \A i \in ResultIdx(1) :
        LET r    == results[1][i]
            tied == tiedActions(r.votes)
        IN  (Len(tied) >= 2 /\ maxTally(r.votes) >= 1 /\ causes[1][i].hash /= NoHash)
            => r.winningAction = tied[(XOR(causes[1][i].hash, r.windowId) % Len(tied)) + 1]

\* number of occurrences of vote v in a vote list
RECURSIVE occurrences(_, _)
occurrences(list, v) ==
    IF list = <<>> THEN 0
    ELSE (IF Head(list) = v THEN 1 ELSE 0) + occurrences(Tail(list), v)

\* two vote lists hold the same votes, in any order
sameVotes(l1, l2) ==
    /\ Len(l1) = Len(l2)
    /\ \A i \in 1..Len(l1) : occurrences(l1, l1[i]) = occurrences(l2, l1[i])

\* C8: two runs that finalize a window from the same votes, in any arrival
\* order, with the same finalizing hash elect the same winner
C8_ElectionDeterministic ==
    \A i \in ResultIdx(1), j \in ResultIdx(2) :
        (/\ results[1][i].windowId = results[2][j].windowId
         /\ sameVotes(causes[1][i].ballots, causes[2][j].ballots)
         /\ causes[1][i].hash = causes[2][j].hash)
        => results[1][i].winningAction = results[2][j].winningAction

\* C8 witness: both runs emitted window 0 from the same votes, which arrived
\* in different orders and tie for the largest tally
C8_Witness ==
    \E i \in ResultIdx(1), j \in ResultIdx(2) :
        /\ results[1][i].windowId = results[2][j].windowId
        /\ sameVotes(causes[1][i].ballots, causes[2][j].ballots)
        /\ causes[1][i].ballots /= causes[2][j].ballots
        /\ Len(tiedActions(results[1][i].votes)) >= 2
        /\ maxTally(results[1][i].votes) >= 1

\* C9: a result is emitted only for a window in which a vote fell, and the
\* window clock is never behind the window of the largest tick
C9_EmptyWindowSkipped ==
    /\ \A i \in ResultIdx(1) :
           \E v \in added[1] : getWindowId(v.blockNumber) = results[1][i].windowId
    /\ currentWindow[1] >= maxTick[1]

\* C9 witness: a tick moved the clock past a window in which no vote fell,
\* and a window with votes was emitted
C9_Witness ==
    /\ Len(results[1]) >= 1
    /\ \E k \in 0..(NumWindows - 1) :
           /\ k < maxTick[1]
           /\ k < currentWindow[1]
           /\ \A v \in added[1] : getWindowId(v.blockNumber) /= k

\* C10: an addVote for a window below currentWindow leaves the per-window
\* vote lists, the clock and the results unchanged
C10_LateVoteRejected ==
    [][\A player \in Players, action \in ActionCodes, blockNumber \in Blocks :
          (getWindowId(blockNumber) < currentWindow[1]
           /\ AddVote(1, player, action, blockNumber))
          => UNCHANGED <<currentWindow, votes, results>>]_vars

(***************************************************************************)
(* Properties of the ingestion with cleanupOldEvents (SpecIdx)             *)
(***************************************************************************)

\* number of `vote` broadcasts for a log among events
RECURSIVE voteEmits(_, _)
voteEmits(log, events) ==
    IF events = <<>> THEN 0
    ELSE (IF /\ Head(events).type = "vote"
             /\ Head(events).payload.blockNumber = log.blockNumber
             /\ Head(events).payload.txHash = log.txHash
          THEN 1 ELSE 0) + voteEmits(log, Tail(events))

\* C11: a log triple delivered to processVoteEvent any number of times, by
\* the subscription or the polling path, with cleanupOldEvents running in
\* between, reaches addVote exactly once and is broadcast as exactly one
\* `vote` event
C11_DeliveredTwiceRecordedOnce ==
    /\ \A log \in accepted : voteEmits(log, ioLog) = 1
    /\ nAdded[1] = Cardinality(accepted)

(***************************************************************************)
(* Algebraic properties of the aggregator (SpecAgg)                        *)
(***************************************************************************)

\* the fields of a VoteAggregator and the results it has emitted
aggState(a) == [currentWindow |-> a.currentWindow, votes |-> a.votes, results |-> a.results]

\* C12: addVote(v); addVote(v) leaves the aggregator in the state addVote(v)
\* leaves it in
C12_AddVoteIdempotent ==
    \A player \in Players, action \in ActionCodes, blockNumber \in Blocks :
        LET once == addVote(aggOf(1), player, action, blockNumber)
        IN  aggState(addVote(once, player, action, blockNumber)) = aggState(once)

\* C13: onBlock(n); onBlock(n) leaves the state of onBlock(n), and after
\* onBlock(n) a call onBlock(m) with m < n changes no field and emits no
\* result
C13_OnBlockIdempotent ==
    \A n \in Blocks, blockHash \in Hashes \cup {NoHash} :
        LET ticked == onBlock(aggOf(1), n, blockHash)
        IN  /\ aggState(onBlock(ticked, n, blockHash)) = aggState(ticked)
            /\ \A m \in 0..(n - 1) :
                  aggState(onBlock(ticked, m, blockHash)) = aggState(ticked)

\* a tick has finalized a window and votes of the current window wait, so a
\* repeated or older tick has a clock and votes to disturb
C13_Witness ==
    /\ causes[1] /= <<>>
    /\ causes[1][Len(causes[1])].op = "onBlock"
    /\ currentWindow[1] = getWindowId(causes[1][Len(causes[1])].block)
    /\ MapHas(votes[1], currentWindow[1])

(***************************************************************************)
(* Properties of the frame pipeline (SpecFrame)                            *)
(***************************************************************************)

C15_FailureRestoresSlot ==
    [][failures' = failures + 1 =>
          /\ emitted' = emitted
          /\ Cardinality(compressing \ compressing') = 1
          /\ compressionInFlight' =
                compressionInFlight - 1 + Cardinality(compressing' \ compressing)
          /\ compressionInFlight' = Cardinality(compressing')]_vars

\* after a rejection every slot is free again
C15_Witness ==
    /\ failures >= 1
    /\ compressionInFlight = 0
    /\ compressing = {}
    /\ frameCount > maxConcurrentCompressions

(***************************************************************************)
(* Properties of the game-state sampler (SpecGame)                         *)
(***************************************************************************)

\* two samples agree in location, badge count, party count, money and the
\* current and max HP of every party slot
sameSnapshot(g, h) ==
    /\ g.location = h.location
    /\ g.badgeCount = h.badgeCount
    /\ g.partyCount = h.partyCount
    /\ g.money = h.money
    /\ g.partyHp = h.partyHp

\* C16: in a sampler run, a sample equal to the previous sample in the
\* compared fields is not broadcast; a sample that differs from the previous
\* sample (the first of a run of identical samples) or from the last
\* broadcast snapshot is broadcast and becomes the last broadcast snapshot;
\* a run that reads no game state broadcasts nothing
C16_ChangeDetection ==
    [][sampleTick' /= sampleTick =>
          /\ lastSample' = <<>> => ~sampleBroadcast'
          /\ (lastSample' /= <<>> /\ lastSample /= <<>>) =>
                (sameSnapshot(lastSample'[1], lastSample[1]) <=> ~sampleBroadcast')
          /\ (lastSample' /= <<>> /\ cachedGameState = <<>>) => sampleBroadcast'
          /\ (lastSample' /= <<>> /\ cachedGameState /= <<>>) =>
                (~sameSnapshot(lastSample'[1], cachedGameState[1]) => sampleBroadcast')
          /\ cachedGameState' = IF sampleBroadcast' THEN lastSample' ELSE cachedGameState]_vars

\* a sample that repeats the broadcast snapshot in every compared field (and
\* differs in a field that is not compared) has not been broadcast
C16_Witness ==
    /\ lastSample /= <<>>
    /\ cachedGameState /= <<>>
    /\ ~sampleBroadcast
    /\ lastSample /= cachedGameState
    /\ Len(lastSample[1].partyHp) = MaxParty

(***************************************************************************)
(* Properties of SimpleDelegation.execute (SpecDeleg)                      *)
(***************************************************************************)

\* C17: the nonce of an account changes only in an execute call on that
\* account that returns; the calls that return (the transaction's own and a
\* re-entrant one) consume the consecutive nonces from the old value on, one
\* each; an execute call that reverts leaves every nonce unchanged
C17_NonceByOne ==
    [][/\ \A o \in Owners :
             nonces'[o] /= nonces[o] =>
                /\ lastExec'.ok
                /\ lastExec'.owner = o
                /\ nonces'[o] = nonces[o] + Len(lastExec'.consumed)
                /\ \A i \in 1..Len(lastExec'.consumed) :
                      lastExec'.consumed[i] = nonces[o] + i - 1
       /\ ~lastExec'.ok => nonces' = nonces
       /\ (lastExec' /= lastExec /\ lastExec'.ok) =>
             nonces'[lastExec'.owner] > nonces[lastExec'.owner]]_vars

\* an account has executed twice and its latest execute call has reverted
C17_Witness ==
    /\ lastExec.owner \in Owners
    /\ ~lastExec.ok
    /\ nonces[lastExec.owner] >= 2

(***************************************************************************)
(* Properties of MonadPlaysPokemon.vote (SpecVote)                         *)
(***************************************************************************)

\* C18: a vote call with one of the 8 actions appends exactly one VoteCast
\* event, whose player is the caller and whose action is the argument, and
\* writes no storage
C18_VoteEmitsOneEvent ==
    [][(lastVoteCall' /= lastVoteCall \/ voteCastLog' /= voteCastLog) =>
          /\ lastVoteCall'.action \in 0..(Len(Actions) - 1) =>
                voteCastLog' = Append(voteCastLog,
                                      [event |-> "VoteCast",
                                       player |-> lastVoteCall'.sender,
                                       action |-> lastVoteCall'.action])
          /\ mppStorage' = mppStorage]_vars

\* two callers have voted, the second for SELECT
C18_Witness ==
    /\ Len(voteCastLog) = 2
    /\ voteCastLog[1].player /= voteCastLog[2].player
    /\ voteCastLog[2].action = Len(Actions) - 1
    /\ lastVoteCall.ok

(***************************************************************************)
(* Properties of the frame spectators (SpecView)                           *)
(***************************************************************************)

\* the connections that have connected and for which neither close nor
\* error has been handled
registered(states) == {c \in Conns : states[c] \in {"OPEN", "CLOSING"}}

\* C19: a connection, close or error event sends every open spectator one
\* viewerCount message (after screenInfo for the new spectator) whose count
\* is the number of registered connections, and sends the others nothing
C19_ViewerCountBroadcast ==
    [][lastEvent' /= lastEvent =>
          LET msg == [type |-> "viewerCount", count |-> Cardinality(registered(connState'))]
          IN  \A c \in Conns :
                 IF connState'[c] = "OPEN"
                 THEN /\ received'[c] /= <<>>
                      /\ received'[c][Len(received'[c])] = msg
                      /\ Len(received'[c]) = Len(received[c]) +
                            (IF lastEvent' = [conn |-> c, type |-> "connection"] THEN 2 ELSE 1)
                 ELSE received'[c] = received[c]]_vars

\* a spectator has seen the count fall once for the error and stay for the
\* close of another connection
C19_Witness ==
    /\ lastEvent.type = "close"
    /\ \E d \in Conns :
          /\ connState[d] = "OPEN"
          /\ Len(received[d]) >= 5
          /\ received[d][Len(received[d])].count = 1
          /\ received[d][Len(received[d]) - 1].count = 1
          /\ received[d][Len(received[d]) - 2].count = 2

(***************************************************************************)
(* Properties of the circular buffers (SpecIdx)                            *)
(***************************************************************************)

\* the payloads of the events of one type, in order
RECURSIVE payloads(_, _)
payloads(events, type) ==
    IF events = <<>> THEN <<>>
    ELSE (IF Head(events).type = type THEN <<Head(events).payload>> ELSE <<>>)
         \o payloads(Tail(events), type)

\* the last n items of a sequence
lastItems(seq, n) == SubSeq(seq, Max(1, Len(seq) - n + 1), Len(seq))

\* C20: recentVotes holds the last MAX_CACHED_VOTES accepted votes and
\* recentActions the last MAX_CACHED_ACTIONS window results, each in arrival
\* order
C20_BuffersHoldMostRecent ==
    /\ Len(recentVotes) <= MAX_CACHED_VOTES
    /\ Len(recentActions) <= MAX_CACHED_ACTIONS
    /\ recentVotes = lastItems(payloads(ioLog, "vote"), MAX_CACHED_VOTES)
    /\ recentActions = lastItems(results[1], MAX_CACHED_ACTIONS)

\* both buffers have evicted an entry
C20_Witness ==
    /\ Len(payloads(ioLog, "vote")) > MAX_CACHED_VOTES
    /\ Len(results[1]) > MAX_CACHED_ACTIONS

(***************************************************************************)
(* Further properties of the aggregator (SpecAgg)                          *)
(***************************************************************************)

\* C21: when several actions tie for the largest tally and the finalizing
\* call carried no block hash, the winner is the first tied action in
\* canonical enum order
C21_TieFallsBackToEnumOrder ==
    \A i \in ResultIdx(1) :
        LET r    == results[1][i]
            tied == tiedActions(r.votes)
        IN  (Len(tied) >= 2 /\ causes[1][i].hash = NoHash)
            => r.winningAction = tied[1]

\* C21 witness: a result emitted without a hash for a window in which two
\* actions tie with at least one vote each, the first vote to arrive being
\* for the later action in enum order
C21_Witness ==
    \E i \in ResultIdx(1) :
        /\ causes[1][i].hash = NoHash
        /\ Len(tiedActions(results[1][i].votes)) >= 2
        /\ maxTally(results[1][i].votes) >= 1
        /\ actionNameOf(causes[1][i].ballots[1].action) /= results[1][i].winningAction
        /\ actionNameOf(causes[1][i].ballots[1].action) \in ActionNames

\* C22: the per-window vote map holds no entry for a window below
\* currentWindow
C22_FinalizedWindowsReleased ==
    \A w \in DOMAIN votes[1] : w >= currentWindow[1]

(***************************************************************************)
(* Properties of the queued frame slot (SpecFrame, SpecFrameFair) and of   *)
(* the button injection (SpecButton)                                       *)
(***************************************************************************)

\* C23: when all compression slots are busy the new raw frame replaces the
\* frame in the queued slot; a frame taken from the slot by a settle handler
\* is the most recently produced frame that was not compressed at once; a
\* replaced frame is never compressed and never delivered
C23_QueuedSlotKeepsLatest ==
    [][/\ (FrameTick /\ ~slotFree(compressionInFlight))
          => /\ queuedFrame' = <<frameCount + 1>>
             /\ slotFrames(queuedFrame) \subseteq replaced'
       /\ \A f \in started' \ started :
              \/ FrameTick /\ f = frameCount + 1 /\ slotFree(compressionInFlight)
              \/ queuedFrame = <<f>> /\ f = lastDeferred /\ queuedFrame' = <<>>
       /\ replaced' \cap started' = {}
       /\ emitted' \notin replaced']_vars

\* C23 witness: a queued frame was replaced, and the frame that replaced it
\* was taken from the slot, compressed and delivered
C23_Witness ==
    /\ replaced /= {}
    /\ lastDeferred \in started
    /\ emitted = lastDeferred

\* C24: when every started compression settles, a frame placed in the queued
\* slot is eventually replaced by a newer frame or dequeued and compressed
\* (an occupied slot is eventually empty, and a frame leaves the slot only
\* by being replaced by a newer frame or by having its compression started);
\* a settle handler that finds a frame queued and a slot free dequeues it and
\* starts its compression
C24_QueuedFrameProgresses ==
    /\ (queuedFrame /= <<>>) ~> (queuedFrame = <<>>)
    /\ [][\A f \in slotFrames(queuedFrame) \ slotFrames(queuedFrame') :
              \/ f \in replaced' /\ queuedFrame' = <<frameCount'>> /\ frameCount' > f
              \/ f \in started' \ started]_vars
    /\ [][(CompressionSettles /\ queuedFrame /= <<>>
             /\ compressionInFlight - 1 < maxConcurrentCompressions)
          => (queuedFrame' = <<>> /\ Head(queuedFrame) \in compressing')]_vars

\* C24 witness: a frame that found no free slot was dequeued and its
\* compression started after a compression had been rejected
C24_Witness ==
    /\ lastDeferred /= 0
    /\ lastDeferred \in started
    /\ queuedFrame = <<>>
    /\ failures >= 1

\* the frame ticks since the latest pressButton call
ticksIn(calls) == Cardinality({i \in 1..Len(calls) : calls[i].op = "doFrame"})

\* the core calls of n frame ticks that follow pressButton(button, d): the
\* key is pressed before doFrame on the first d ticks
RECURSIVE ticksFrom(_, _, _, _)
ticksFrom(button, d, i, n) ==
    IF i > n THEN <<>>
    ELSE (IF i <= d THEN <<[op |-> "pressKey", key |-> <<[keymap |-> button]>>]>> ELSE <<>>)
         \o <<[op |-> "doFrame", key |-> <<>>]>>
         \o ticksFrom(button, d, i + 1, n)

\* C25: after pressButton(name, d) with a known button and d >= 1, the key is
\* pressed on exactly the next d frame ticks, each time before doFrame;
\* buttonFramesRemaining drops by one per tick; the pending button is cleared
\* when it reaches zero
C25_ButtonHeldForDuration ==
    LET d == lastPress.durationFrames
        n == ticksIn(coreCalls)
    IN  (lastPress /= NoPress /\ d >= 1)
        => /\ coreCalls = ticksFrom(lastPress.button, d, 1, n)
           /\ buttonFramesRemaining = (IF n < d THEN d - n ELSE 0)
           /\ pendingButton = (IF n < d THEN <<lastPress.button>> ELSE <<>>)

\* C25 witness: a press of two or more frames, followed by more ticks than
\* its duration
C25_Witness ==
    /\ lastPress /= NoPress
    /\ lastPress.durationFrames >= 2
    /\ ticksIn(coreCalls) > lastPress.durationFrames
    /\ Len(coreCalls) = ticksIn(coreCalls) + lastPress.durationFrames

(***************************************************************************)
(* Properties of the frame channel (SpecView)                              *)
(***************************************************************************)

\* C26: the first message a spectator receives on the frame channel is
\* screenInfo: no viewerCount message and no frame is sent to it before
C26_ScreenInfoFirst ==
    \A c \in Conns : received[c] /= <<>> => received[c][1].type = "screenInfo"

\* C26 witness: a spectator connected while another one was registered and
\* after a frame had been broadcast, and has since received a frame
C26_Witness ==
    \E c, d \in Conns :
        /\ c /= d
        /\ Len(received[c]) >= 3
        /\ Len(received[d]) >= 4
        /\ received[d][2] = [type |-> "viewerCount", count |-> 1]
        /\ received[d][3].type = "frame"
        /\ received[c][2] = [type |-> "viewerCount", count |-> 2]
        /\ received[c][3].type = "frame"

(***************************************************************************)
(* Properties of the event channel (SpecIo)                                *)
(***************************************************************************)

\* C27: a newly accepted connection of the event channel has been sent
\* nothing before its connection handler runs, which sends it screenInfo,
\* then recentHistory with the current contents of both circular buffers,
\* then gameState if and only if a game state is cached; what it is sent
\* later follows these
C27_GreetingBeforeBroadcasts ==
    [][\A c \in IoConns :
          /\ (c \notin ioSockets /\ c \in ioSockets')
             => /\ ioReceived[c] = <<>>
                /\ Len(ioReceived'[c]) = (IF cachedGameState = <<>> THEN 2 ELSE 3)
                /\ ioReceived'[c][1].type = "screenInfo"
                /\ ioReceived'[c][2] =
                      [type |-> "recentHistory",
                       payload |-> [votes |-> recentVotes, actions |-> recentActions]]
                /\ cachedGameState /= <<>>
                   => ioReceived'[c][3] = [type |-> "gameState", payload |-> cachedGameState[1]]
          /\ c \in ioSockets
             => SubSeq(ioReceived'[c], 1, Len(ioReceived[c])) = ioReceived[c]]_vars

\* C27 witness: a socket connected while both buffers held an entry and a
\* game state was cached, and has since been sent a windowResult, a vote and
\* a gameState broadcast
C27_Witness ==
    \E c \in ioSockets :
        /\ Len(ioReceived[c]) >= 6
        /\ ioReceived[c][2].payload.votes /= <<>>
        /\ ioReceived[c][2].payload.actions /= <<>>
        /\ ioReceived[c][3].type = "gameState"
        /\ \E i, j, k \in 4..Len(ioReceived[c]) :
              /\ ioReceived[c][i].type = "windowResult"
              /\ ioReceived[c][j].type = "vote"
              /\ ioReceived[c][k].type = "gameState"

(***************************************************************************)
(* Properties of the polling path (SpecPoll) and of the cleanup (SpecIdx)  *)
(***************************************************************************)

\* C28: every log query of the polling path covers a range [fromBlock,
\* toBlock] with toBlock <= head and at most MAX_BLOCK_RANGE blocks; once a
\* poll has set lastPolledBlock, fromBlock = lastPolledBlock + 1, except that
\* the start is latestBlock - MAX_BLOCK_RANGE when the reported head is more
\* than 10 * MAX_BLOCK_RANGE blocks ahead of it
C28_PollRange ==
    [][\A p \in BagToSet(polls') :
          (p.pc = "queryFilter" /\ CopiesIn(p, polls') > CopiesIn(p, polls))
          => /\ p.toBlock <= head
             /\ p.fromBlock <= p.toBlock
             /\ p.toBlock - p.fromBlock + 1 <= MAX_BLOCK_RANGE
             /\ polledOnce
                => p.fromBlock =
                     (IF p.latestBlock - (lastPolledBlock + 1) > 10 * MAX_BLOCK_RANGE
                      THEN p.latestBlock - MAX_BLOCK_RANGE
                      ELSE lastPolledBlock + 1)]_vars

\* C29: a run of cleanupOldEvents removes from seenEvents exactly the keys
\* whose block number is below (currentWindow - 2) * windowSize, currentWindow
\* being the window of lastPolledBlock, and leaves the aggregator and the
\* circular buffers unchanged
C29_CleanupRemovesOldKeys ==
    [][CleanupOldEvents
       => /\ seenEvents' =
               seenEvents \ {k \in seenEvents :
                               k[1] < (getWindowId(lastPolledBlock) - 2) * windowSize}
          /\ UNCHANGED <<aggVars, recentVotes, recentActions>>]_vars

\* C29 witness: the key of an accepted log has been removed while the key of
\* another accepted log is kept
C29_Witness ==
    \E l, m \in accepted :
        /\ getEventKey(l.blockNumber, l.txHash, l.logIndex) \notin seenEvents
        /\ getEventKey(m.blockNumber, m.txHash, m.logIndex) \in seenEvents
        /\ m.blockNumber = (getWindowId(lastPolledBlock) - 2) * windowSize

\* C30: when a subscription socket closes, both subscription ids are
\* discarded and exactly one reconnect timer, set to 5000 ms, is pending
\* afterwards (a timer pending before is replaced by it); at every moment at
\* most one reconnect timer is pending and at most one subscription socket
\* is live; a notification reaches the aggregator only on the live socket
\* created last, after that socket has received the confirmation of the
\* notification's subscription
C30_SingleReconnectAndSocket ==
    /\ [](Cardinality(wsTimers) <= 1 /\ Cardinality(liveSockets) <= 1)
    /\ [][(\E k \in Sockets : upSockets[k] /= "CLOSED" /\ upSockets'[k] = "CLOSED")
          => /\ newHeadsSubId' = <<>>
             /\ logsSubId' = <<>>
             /\ \E t \in wsTimers' :
                    /\ wsTimers' = {t}
                    /\ t \notin wsTimers
                    /\ t.delay = 5000
                    /\ wsReconnectTimeout' = <<t.handle>>]_vars
    /\ [][lastRouted' /= lastRouted
          => /\ lastRouted'.socket = rpcWs
             /\ liveSockets = {rpcWs}
             /\ lastRouted'.id \in wsConfirmed[rpcWs]]_vars

\* a second socket, created by the reconnect timer after the first one
\* closed, has confirmed both subscriptions and routed a notification
C30_Witness ==
    /\ rpcWs = 2
    /\ upSockets[1] = "CLOSED"
    /\ upSockets[2] = "OPEN"
    /\ wsConfirmed[1] = {1, 2}
    /\ wsConfirmed[2] = {1, 2}
    /\ lastRouted.socket = 2
    /\ wsTimers = {}
    /\ wsReconnectTimeout = <<1>>

\* the windows of the far chain's VoteCast logs
FarVoteWindows == {getWindowId(l.blockNumber) : l \in FarVotes}

\* C31: on the polling path alone, with every poll succeeding and told the
\* chain's head, a window that holds a recorded vote and whose last block is
\* below the head is eventually finalized with its result emitted
C31_PollingDrivesWindows ==
    \A w \in FarVoteWindows :
        (MapHas(votes[1], w) /\ head >= (w + 1) * windowSize)
            ~> (\E i \in 1..Len(results[1]) : results[1][i].windowId = w)

\* C32: the shutdown handler saves, stops the emulator, closes the
\* subscription socket and cancels its reconnect timer, closes the server
\* and exits with code 0, in this order and in one step: once the process
\* has exited the calls are logged in that order, the save holds the last
\* frame produced, no frame timer, reconnect timer, open subscription socket
\* or listening server is left, and nothing changes any more
C32_ShutdownOrder ==
    /\ [](exitCode /= <<>>
            => /\ exitCode = <<0>>
               /\ SelectSeq(shutdownLog, LAMBDA c : c /= "clearTimeout")
                     = <<"emulator.saveState", "emulator.stop", "ws.close",
                         "httpServer.close", "process.exit">>
               /\ \A i \in 1..Len(shutdownLog) :
                     shutdownLog[i] = "clearTimeout"
                        => shutdownLog[i - 1] = "ws.close"
                             /\ shutdownLog[i + 1] = "httpServer.close"
               /\ savedFrame = frameCount
               /\ ~isRunning
               /\ ~listening
               /\ wsTimers = {}
               /\ liveSockets = {})
    /\ [][exitCode /= <<>> => UNCHANGED vars]_vars
    /\ [][exitCode' /= exitCode => exitCode = <<>> /\ shutdownLog = <<>>]_vars

\* the process has exited after frames were produced and saved by the save
\* timer at an earlier frame; the reconnect timer was pending at the signal
C32_Witness ==
    /\ exitCode = <<0>>
    /\ frameCount >= 2
    /\ "clearTimeout" \in {shutdownLog[i] : i \in 1..Len(shutdownLog)}
    /\ upSockets[1] = "CLOSED"
    /\ wsReconnectTimeout = <<1>>

\* C33: a relay request carries an authorization exactly when the client
\* holds the user's delegation status as false, and always when the account
\* is not delegated; a successful relay leaves the cache with the user
\* marked delegated and the nonce signed plus 1, so that the same user's
\* next request carries no authorization and signs that nonce without a
\* fetch; a failure whose message mentions a nonce or an invalid signature
\* clears the cached nonce, and the next request signs a nonce fetched anew
C33_RelayCache ==
    /\ [][relayRequest = <<>> /\ relayRequest' /= <<>>
          => /\ relayRequest'[1].authorization = ~relayRequest'[1].isDelegated
             /\ relayRequest'[1].address \notin delegatedUsers
                   => relayRequest'[1].authorization
             /\ (relayLast.outcome = "ok" /\ relayLast.address = relayRequest'[1].address)
                   => /\ ~relayRequest'[1].authorization
                      /\ ~relayRequest'[1].fetched
                      /\ relayRequest'[1].nonce = relayLast.nonce + 1
             /\ relayLast.outcome \in {"staleNonce", "noNonce"}
                   => /\ relayRequest'[1].fetched
                      /\ relayRequest'[1].nonce = relayNonce(relayRequest'[1].address)]_vars
    /\ [][relayRequest /= <<>> /\ relayRequest' = <<>>
          => /\ relayLast'.outcome = "ok"
                   => /\ relayCache'.address = <<relayRequest[1].address>>
                      /\ relayCache'.isDelegated = <<TRUE>>
                      /\ relayCache'.nonce = <<relayRequest[1].nonce + 1>>
                      /\ relayCache'.nonce = <<execNonce'[relayRequest[1].address]>>
             /\ relayLast'.outcome = "staleNonce" => relayCache'.nonce = <<>>
             /\ relayLast'.outcome = "failed" => relayCache'.nonce = relayCache.nonce]_vars

\* the user's second request, sent without authorization and signing the
\* cached nonce 1, has succeeded
C33_Witness ==
    /\ relayLast.outcome = "ok"
    /\ relayLast.nonce = 1
    /\ ~relayLast.authorization
    /\ ~relayLast.fetched
    /\ relayCache.nonce = <<2>>
    /\ relayRequest = <<>>

(***************************************************************************)
(* Properties of the frame pipeline with throwing calls (SpecFrameThrow)   *)
(***************************************************************************)

\* C34: compressionInFlight equals the number of compressions started and
\* not yet settled and is never negative, also when the frame callback
\* throws in the completion handler or the start of a compression throws
C34_CounterMatchesInFlight ==
    /\ compressionInFlight = Cardinality(compressing)
    /\ compressionInFlight >= 0

\* C35: a raw frame waits in the queued slot only while no compression slot
\* is free: the in-flight counter equals maxConcurrentCompressions (and at
\* least that many compressions are running)
C35_WorkConserving ==
    queuedFrame /= <<>> =>
        /\ compressionInFlight = maxConcurrentCompressions
        /\ Cardinality(compressing) >= maxConcurrentCompressions

\* C35 witness: a frame waits behind eight running compressions after an
\* earlier waiting frame was dequeued by a settle handler
C35_Witness ==
    /\ queuedFrame /= <<>>
    /\ compressionInFlight = maxConcurrentCompressions
    /\ lastDeferred \in replaced \cup started \cup slotFrames(queuedFrame)
    /\ \E f \in started : f > maxConcurrentCompressions /\ f < Head(queuedFrame)

\* C36: compressed frames reach the frame callback (and so every frame
\* spectator) in the order in which the raw frames were produced: a frame
\* passed to onFrame is never older than the frame passed before it
C36_FramesInProductionOrder ==
    [][emitted' >= emitted]_vars

(***************************************************************************)
(* Properties of the window results as button presses (SpecPress)          *)
(***************************************************************************)

\* the pending press has not been injected on any frame tick yet
pressNotInjected ==
    pendingButton /= <<>> /\ buttonFramesRemaining = lastPress.durationFrames

\* C37: the winning button of every emitted window result is injected on at
\* least one later frame tick: a handler emits at most one result (a press
\* followed by another press in the same handler is never injected), and no
\* result is emitted while the press of the result before it still waits
\* for its first frame tick
C37_EveryResultInjected ==
    [][Len(newResults) >= 1 => (Len(newResults) = 1 /\ ~pressNotInjected)]_vars

\* the log queries awaiting their answer
pendingQueries(bag) == {p \in BagToSet(bag) : p.pc = "queryFilter"}

\* C38: lastPolledBlock never decreases and no block is queried twice: a
\* query that is issued starts above lastPolledBlock once a poll has set it,
\* and shares no block with a query still awaiting its answer
C38_PolledBlockMonotone ==
    [][/\ lastPolledBlock' >= lastPolledBlock
       /\ \A p \in pendingQueries(polls') :
             CopiesIn(p, polls') > CopiesIn(p, polls)
             => /\ polledOnce => p.fromBlock > lastPolledBlock
                /\ CopiesIn(p, polls') = 1
                /\ \A q \in pendingQueries(polls) :
                      q.toBlock < p.fromBlock \/ p.toBlock < q.fromBlock]_vars

(***************************************************************************)
(* Properties of the broadcasts of votes and window results (SpecPress:    *)
(* the polling and subscription handlers, whole)                           *)
(***************************************************************************)

\* the vote events among events that name a block of window windowId and
\* the action name
broadcastVotes(events, windowId, name) ==
    Cardinality({j \in 1..Len(events) :
                    /\ events[j].type = "vote"
                    /\ getWindowId(events[j].payload.blockNumber) = windowId
                    /\ events[j].payload.action = name})

\* the events a step broadcasts
newEvents == SubSeq(ioLog', Len(ioLog) + 1, Len(ioLog'))

\* C39: every vote counted in a window result was broadcast as a vote event
\* before the windowResult event of that window (the tallies of a broadcast
\* result are the vote events of its window broadcast before it), and every
\* broadcast vote has been appended to recentVotes by then (the votes a
\* handler broadcasts are the newest entries of recentVotes, in order)
C39_VotesBroadcastBeforeResult ==
    [][/\ \A i \in (Len(ioLog) + 1)..Len(ioLog') :
             ioLog'[i].type = "windowResult"
             => \A name \in ActionNames :
                   ioLog'[i].payload.votes[name] =
                      broadcastVotes(SubSeq(ioLog', 1, i - 1), ioLog'[i].payload.windowId, name)
       /\ LET kept == lastItems(payloads(newEvents, "vote"), MAX_CACHED_VOTES)
          IN  lastItems(recentVotes', Len(kept)) = kept]_vars

\* C39 witness: the results of windows 0 and 1 were broadcast, each after the
\* vote event of its window
C39_Witness ==
    \E i, j, k, l \in 1..Len(ioLog) :
        /\ i < j /\ j < l /\ k < l
        /\ ioLog[i].type = "vote" /\ getWindowId(ioLog[i].payload.blockNumber) = 0
        /\ ioLog[j].type = "windowResult" /\ ioLog[j].payload.windowId = 0
        /\ ioLog[k].type = "vote" /\ getWindowId(ioLog[k].payload.blockNumber) = 1
        /\ ioLog[l].type = "windowResult" /\ ioLog[l].payload.windowId = 1

(***************************************************************************)
(* Properties of the snapshot and the live stream (SpecIo)                 *)
(***************************************************************************)

\* the recentHistory payload socket c was greeted with
snapshotOf(c) == ioReceived[c][2].payload

\* what socket c received after its recentHistory
liveOf(c) == SubSeq(ioReceived[c], 3, Len(ioReceived[c]))

\* C40: for every connected socket, the votes of its recentHistory snapshot
\* followed by the vote events it received since are a gap-free, duplicate-
\* free run of the server's vote broadcasts up to the newest one, and so
\* are the snapshot's actions followed by the windowResult events
C40_SnapshotThenLiveExactlyOnce ==
    \A c \in ioSockets :
        LET seenVotes   == snapshotOf(c).votes \o payloads(liveOf(c), "vote")
            seenActions == snapshotOf(c).actions \o payloads(liveOf(c), "windowResult")
        IN  /\ ioReceived[c][2].type = "recentHistory"
            /\ seenVotes = lastItems(payloads(ioLog, "vote"), Len(seenVotes))
            /\ seenActions = lastItems(payloads(ioLog, "windowResult"), Len(seenActions))
            /\ Len(payloads(ioLog, "vote")) > Len(seenVotes)
                  => Len(snapshotOf(c).votes) = MAX_CACHED_VOTES
            /\ Len(payloads(ioLog, "windowResult")) > Len(seenActions)
                  => Len(snapshotOf(c).actions) = MAX_CACHED_ACTIONS

\* C40 witness: a socket connected after a vote and a window result had been
\* cached, and has since received a vote and a window result
C40_Witness ==
    \E c \in ioSockets :
        /\ snapshotOf(c).votes /= <<>>
        /\ snapshotOf(c).actions /= <<>>
        /\ payloads(liveOf(c), "vote") /= <<>>
        /\ payloads(liveOf(c), "windowResult") /= <<>>

====
